---- MODULE Spec2Model ----
(***************************************************************************)
(* Model of the spacebot LLM router: src/src/llm/model.rs (SpacebotModel:  *)
(* make, completion, attempt_with_retries, attempt_completion,             *)
(* call_antigravity) together with the rate-limit tracker of LlmManager    *)
(* and the error classification of llm::routing, which model.rs calls.     *)
(*                                                                         *)
(* Strings.  A model identifier is kept as the sequence of its             *)
(* "/"-separated segments, so that strip_prefix("openrouter/") and         *)
(* split_once('/') are computed and not looked up.  An error message is a  *)
(* sequence of words; `contains` of the classification heuristics is word  *)
(* membership, which agrees with substring search on the messages used     *)
(* here: none of their words has a keyword as a proper part.               *)
(***************************************************************************)
EXTENDS Integers, Sequences, FiniteSets, TLC

VARIABLES
    now,        \* the clock, in milliseconds
    tracker,    \* LlmManager's rate-limit map: key -> time of last record
    history,    \* ghost: the record_rate_limit calls so far, [key, at], in order
    routing,    \* the routing configuration, fixed at construction
    providers,  \* LlmManager's table of provider configurations
    env,        \* what callers and providers do in this run: the identifiers
                \* callers bind, whether they attach the routing config, and
                \* the replies providers give
    call,       \* per task: the state of its completion() call
    obs,        \* per task: ghost observations of the call in progress
    store,      \* the credential store: per provider, the cached credentials
                \* and the holder of its lock
    auth,       \* per task: the state of its access-token request
    job,        \* one call of a pure function: its input and its result
    disk        \* the instance directory: per credential kind, the file at
                \* its final path (existence, content, permission bits)

\* The variables of the completion() engine.
engineVars == <<now, tracker, history, routing, providers, env, call, obs>>

\* The variables the completion() engine never touches.
restVars == <<store, auth, job, disk>>

vars == <<now, tracker, history, routing, providers, env, call, obs, store,
          auth, job, disk>>

(***************************************************************************)
(* Bounds of the model.                                                    *)
(***************************************************************************)
MaxFallbackLen == 4
MaxPrior == 2

(***************************************************************************)
(* Constants of llm::routing (imported by model.rs line 6).                *)
(***************************************************************************)
MAX_RETRIES_PER_MODEL == 3
MAX_FALLBACK_ATTEMPTS == 3
RETRY_BASE_DELAY_MS == 500

(***************************************************************************)
(* How long an await on the network (send().await, text().await) takes, in *)
(* milliseconds: no measurable time, a quick answer, and an answer that    *)
(* takes longer than the cooldown of one second.                           *)
(***************************************************************************)
QuickMs == 300
SlowMs == 1200

Latencies == {0, QuickMs, SlowMs}

Min(a, b) == IF a < b THEN a ELSE b

Max(a, b) == IF a > b THEN a ELSE b

RECURSIVE Pow2(_)
Pow2(n) == IF n = 0 THEN 1 ELSE 2 * Pow2(n - 1)

\* std::option::Option::None for an absent field.
None == "none"

\* The variables of the process environment that auth.rs reads (lines 22-23).
ANTIGRAVITY_OAUTH_CLIENT_ID_ENV == "ANTIGRAVITY_OAUTH_CLIENT_ID"

ANTIGRAVITY_OAUTH_CLIENT_SECRET_ENV == "ANTIGRAVITY_OAUTH_CLIENT_SECRET"

OAuthVariables ==
    {ANTIGRAVITY_OAUTH_CLIENT_ID_ENV, ANTIGRAVITY_OAUTH_CLIENT_SECRET_ENV}

\* A process environment: each variable is set to a string, is not set, or
\* is set to bytes that are not Unicode.
Environments == [OAuthVariables -> {"set", "unset", "not unicode"}]

\* The environment of a process started with both variables set.
OAuthEnvironment == [name \in OAuthVariables |-> "set"]

\* std::env::var(name).is_ok()
env_var_is_ok(environment, name) == environment[name] = "set"

\* The string a sequence of segments stands for: the segments joined by "/".
RECURSIVE Join(_)
Join(segs) ==
    IF Len(segs) = 0 THEN ""
    ELSE IF Len(segs) = 1 THEN segs[1]
    ELSE segs[1] \o "/" \o Join(Tail(segs))

(***************************************************************************)
(* SpacebotModel::make: identifier -> binding (no routing attached).       *)
(***************************************************************************)
\* Faulty variant: the identifier is split at its last "/".
make_split_last(full_name) ==
    LET n == Len(full_name)
        parsed ==
            IF n >= 2
            THEN [provider |-> Join(SubSeq(full_name, 1, n - 1)),
                  model_name |-> <<full_name[n]>>]
            ELSE [provider |-> "anthropic", model_name |-> full_name]
    IN  [provider        |-> parsed.provider,
         model_name      |-> parsed.model_name,
         full_model_name |-> <<parsed.provider>> \o parsed.model_name,
         routing         |-> FALSE]

make(full_name) ==
    LET parsed ==
            IF Len(full_name) >= 2 /\ full_name[1] = "openrouter"
            THEN [provider |-> "openrouter", model_name |-> Tail(full_name)]
            ELSE IF Len(full_name) >= 2
            THEN [provider |-> full_name[1], model_name |-> Tail(full_name)]
            ELSE [provider |-> "anthropic", model_name |-> full_name]
    IN  [provider        |-> parsed.provider,
         model_name      |-> parsed.model_name,
         full_model_name |-> <<parsed.provider>> \o parsed.model_name,
         routing         |-> FALSE]

\* SpacebotModel::with_routing
with_routing(model) == [model EXCEPT !.routing = TRUE]

(***************************************************************************)
(* Rate-limit tracker (LlmManager::is_rate_limited / record_rate_limit).   *)
(***************************************************************************)
is_rate_limited(map, model_name, cooldown_secs, t) ==
    /\ model_name \in DOMAIN map
    /\ t - map[model_name] < cooldown_secs * 1000

\* Faulty variant: a second record leaves the first timestamp in place.
record_rate_limit_keep_first(map, model_name, t) ==
    [k \in DOMAIN map \cup {model_name} |->
        IF k \in DOMAIN map THEN map[k] ELSE t]

record_rate_limit(map, model_name, t) ==
    [k \in DOMAIN map \cup {model_name} |->
        IF k = model_name THEN t ELSE map[k]]

(***************************************************************************)
(* Errors.  CompletionError has the variants ProviderError and             *)
(* ResponseError; to_string() prefixes the variant name.                   *)
(***************************************************************************)
NoError == [variant |-> "None", msg |-> <<>>]

ProviderError(msg) == [variant |-> "ProviderError", msg |-> msg]

ResponseError(msg) == [variant |-> "ResponseError", msg |-> msg]

to_string(error) == <<error.variant \o ":">> \o error.msg

contains(text, word) == \E i \in 1..Len(text) : text[i] = word

\* llm::routing::is_rate_limit_error
is_rate_limit_error(error_str) ==
    \/ contains(error_str, "rate")
    \/ contains(error_str, "429")
    \/ contains(error_str, "rate_limit")

\* The statuses 5\d\d.
ServerErrorStatuses == {ToString(n) : n \in 500..599}

\* llm::routing::is_retriable_error
is_retriable_error(error_str) ==
    \/ is_rate_limit_error(error_str)
    \/ contains(error_str, "timeout")
    \/ \E i \in 1..Len(error_str) : error_str[i] \in ServerErrorStatuses
    \/ contains(error_str, "overloaded")
    \/ contains(error_str, "connection")
    \/ contains(error_str, "temporarily")
    \/ contains(error_str, "internal")
    \/ contains(error_str, "unavailable")

(***************************************************************************)
(* Configuration.  A routing configuration maps the full name of a model   *)
(* to its fallback chain, a list of identifiers as configured.  The        *)
(* identifiers callers use form a ring of distinct models (the haiku entry *)
(* either bare or with its provider prefix); a chain is the next models of *)
(* the ring, or any list: one that names the model itself or a model       *)
(* twice.                                                                   *)
(***************************************************************************)
Ring(bare, ag_model) ==
    << <<"anthropic", "claude-sonnet">>,
       IF bare THEN <<"claude-haiku">> ELSE <<"anthropic", "claude-haiku">>,
       <<"antigravity", ag_model>>,
       <<"openai", "gpt-4o">>,
       <<"openrouter", "meta", "llama">> >>

CooldownChoices == {1}

SandboxEndpoint == "https://daily-cloudcode-pa.sandbox.googleapis.com"

DefaultEndpoint == "https://cloudcode-pa.googleapis.com"

\* provider_config.base_url: not set, a proxy, with and without trailing "/",
\* and the two built-in endpoints themselves.
BaseUrls ==
    {"", "/", "https://proxy.example", "https://proxy.example/",
     SandboxEndpoint, DefaultEndpoint, DefaultEndpoint \o "/"}

\* str::trim_end_matches('/') on the base URLs above.
trim_end_matches(url) ==
    CASE url = "/" -> ""
      [] url = "https://proxy.example/" -> "https://proxy.example"
      [] url = DefaultEndpoint \o "/" -> DefaultEndpoint
      [] url = "https://api.z.ai/api/paas/v4/" -> "https://api.z.ai/api/paas/v4"
      [] OTHER -> url

\* The table that gives every model of the ring the next n models of the
\* ring as its fallback chain.
chains(ring, n) ==
    [name \in {make(ring[i]).full_model_name : i \in 1..Len(ring)} |->
        LET i == CHOOSE j \in 1..Len(ring) :
                    make(ring[j]).full_model_name = name
        IN  [k \in 1..Min(n, Len(ring) - 1) |->
                ring[((i - 1 + k) % Len(ring)) + 1]]]

RingConfig(cooldown, bare, ag_model, n) ==
    [rate_limit_cooldown_secs |-> cooldown, ring |-> Ring(bare, ag_model),
     fallbacks |-> chains(Ring(bare, ag_model), n)]

\* The routing configurations: every model of the ring has the next n models
\* of the ring as its fallback chain.
RoutingConfigs(ag_models, cooldowns) ==
    {RingConfig(c, bare, ag, n) :
        c \in cooldowns, bare \in BOOLEAN, ag \in ag_models,
        n \in 0..MaxFallbackLen}

\* Chains of the sonnet model that name the model itself, by its full name
\* or without the provider prefix, and the haiku model twice; the last is
\* longer than the fallback loop goes.
SelfChains ==
    {<< <<"anthropic", "claude-sonnet">>, <<"claude-haiku">> >>,
     << <<"claude-sonnet">>, <<"claude-haiku">>, <<"claude-haiku">> >>,
     << <<"claude-haiku">>, <<"anthropic", "claude-sonnet">>,
        <<"claude-haiku">>, <<"anthropic", "claude-sonnet">> >>}

\* Configurations with these chains; the chain of the haiku model is the
\* model itself.
SelfConfigs(cooldowns) ==
    {[RingConfig(c, TRUE, "gemini-3-flash", 0) EXCEPT
        !.fallbacks[<<"anthropic", "claude-sonnet">>] = chain,
        !.fallbacks[<<"anthropic", "claude-haiku">>] =
            << <<"anthropic", "claude-haiku">> >>] :
        c \in cooldowns, chain \in SelfChains}

\* Identifiers callers pass to make(): the first k models of the ring as
\* configured, and the haiku model without its provider prefix.
Identifiers(config, k) ==
    {config.ring[i] : i \in 1..k} \cup {<<"claude-haiku">>}

\* The keys completion() can write to the tracker under a configuration: the
\* full name of a primary, or a fallback name as configured.
TrackerKeys(config) ==
    {make(config.ring[i]).full_model_name : i \in 1..Len(config.ring)}
        \cup {config.ring[i] : i \in 1..Len(config.ring)}
        \cup UNION {{config.fallbacks[m][i] : i \in 1..Len(config.fallbacks[m])} :
                        m \in DOMAIN config.fallbacks}

\* The trackers earlier calls can have left behind at time 0.
PriorTrackers(config) ==
    {[k \in K |-> 0] :
        K \in {S \in SUBSET TrackerKeys(config) : Cardinality(S) <= MaxPrior}}

\* RoutingConfig::get_fallbacks: the configured chain of a model, else empty.
get_fallbacks(config, full_model_name) ==
    IF full_model_name \in DOMAIN config.fallbacks
    THEN config.fallbacks[full_model_name]
    ELSE <<>>

(***************************************************************************)
(* Response parsing.  A JSON value is a tuple that starts with its kind:   *)
(* <<"null">>, <<"bool", b>>, <<"num", n>>, <<"str", text>>,               *)
(* <<"arr", values>>, <<"obj", members>> with members <<key, value>>.      *)
(* Option<T> is a sequence of at most one T.  Unsigned 64-bit counts are   *)
(* scaled to WordBits bits.                                                *)
(***************************************************************************)
WordBits == 3

MaxWord == Pow2(WordBits) - 1

\* serde_json::json!({})
EmptyObject == <<"obj", <<>>>>

\* str::trim on the tool names used here.
trim(name) ==
    CASE name = " read " -> "read"
      [] name = "bash " -> "bash"
      [] OTHER -> name

make_tool_call(id, name, arguments) == <<"tool_call", id, trim(name), arguments>>

Text(text) == <<"text", text>>

\* Value::as_u64().unwrap_or(default) on an optional count.
unwrap_or(count, default) == IF count = <<>> THEN default ELSE count[1]

Panicked == [status |-> "panic", choice |-> <<>>, usage |-> <<>>, error |-> NoError]

ParseError(message) ==
    [status |-> "err", choice |-> <<>>, usage |-> <<>>,
     error |-> ResponseError(message)]

\* Ok(CompletionResponse { choice, usage: Usage { input_tokens, output_tokens,
\* total_tokens: input_tokens + output_tokens, .. }, .. }): the sum of two u64
\* panics when it overflows in a build with overflow checks and wraps in one
\* without.
CompletionResponse(choice, input_tokens, output_tokens, overflow_checks) ==
    IF input_tokens + output_tokens > MaxWord /\ overflow_checks
    THEN Panicked
    ELSE [status |-> "ok", choice |-> choice,
          usage |-> <<[input_tokens |-> input_tokens,
                       output_tokens |-> output_tokens,
                       total_tokens |-> (input_tokens + output_tokens)
                                           % Pow2(WordBits)]>>,
          error |-> NoError]

\* OneOrMany::many(assistant_content): Err for an empty vector.
RECURSIVE anthropic_content(_)
anthropic_content(content_blocks) ==
    IF content_blocks = <<>> THEN <<>>
    ELSE LET block == Head(content_blocks)
             rest == anthropic_content(Tail(content_blocks))
         IN  CASE block[1] = "text" -> <<Text(block[2])>> \o rest
               [] block[1] = "tool_use" ->
                    <<make_tool_call(block[2], block[3], block[4])>> \o rest
               [] OTHER -> rest

parse_anthropic_response(body, overflow_checks) ==
    IF body.content = <<>>
    THEN ParseError(<<"missing", "content", "array">>)
    ELSE LET assistant_content == anthropic_content(body.content[1])
             choice == IF assistant_content = <<>> THEN <<Text("")>>
                       ELSE assistant_content
         IN  CompletionResponse(choice,
                                unwrap_or(body.usage.input_tokens, 0),
                                unwrap_or(body.usage.output_tokens, 0),
                                overflow_checks)

(***************************************************************************)
(* JSON texts are sequences of tokens: the punctuation, the literals, and  *)
(* quoted strings.  The text of a JSON string value is a token sequence    *)
(* too, so that a string can hold the JSON text of another value.          *)
(***************************************************************************)
StringAtoms == {"", "a", "b"}

quote(atom) == "\"" \o atom \o "\""

Digits == {0, 1, 2}

RECURSIVE json_to_string(_)
\* serde_json::to_string
json_to_string(v) ==
    LET RECURSIVE elements(_)
        elements(vs) ==
            IF vs = <<>> THEN <<>>
            ELSE json_to_string(Head(vs))
                    \o (IF Len(vs) > 1 THEN <<",">> ELSE <<>>)
                    \o elements(Tail(vs))
        RECURSIVE members(_)
        members(ms) ==
            IF ms = <<>> THEN <<>>
            ELSE <<quote(Head(ms)[1]), ":">> \o json_to_string(Head(ms)[2])
                    \o (IF Len(ms) > 1 THEN <<",">> ELSE <<>>)
                    \o members(Tail(ms))
    IN  CASE v[1] = "null" -> <<"null">>
          [] v[1] = "bool" -> IF v[2] THEN <<"true">> ELSE <<"false">>
          [] v[1] = "num" -> <<ToString(v[2])>>
          [] v[1] = "str" -> <<quote(v[2][1])>>
          [] v[1] = "arr" -> <<"[">> \o elements(v[2]) \o <<"]">>
          [] v[1] = "obj" -> <<"{">> \o members(v[2]) \o <<"}">>

NoParse == [ok |-> FALSE, value |-> <<"null">>, rest |-> <<>>]

RECURSIVE parse_value(_), parse_elements(_, _), parse_members(_, _)
\* One JSON value at the head of the tokens.
parse_value(tokens) ==
    IF tokens = <<>> THEN NoParse
    ELSE LET token == Head(tokens)
             rest == Tail(tokens)
             done(value) == [ok |-> TRUE, value |-> value, rest |-> rest]
         IN  CASE token = "null" -> done(<<"null">>)
               [] token = "true" -> done(<<"bool", TRUE>>)
               [] token = "false" -> done(<<"bool", FALSE>>)
               [] \E n \in Digits : token = ToString(n) ->
                    done(<<"num", CHOOSE n \in Digits : token = ToString(n)>>)
               [] \E a \in StringAtoms : token = quote(a) ->
                    done(<<"str", <<CHOOSE a \in StringAtoms : token = quote(a)>>>>)
               [] token = "[" ->
                    IF rest # <<>> /\ Head(rest) = "]"
                    THEN [ok |-> TRUE, value |-> <<"arr", <<>>>>, rest |-> Tail(rest)]
                    ELSE parse_elements(rest, <<>>)
               [] token = "{" ->
                    IF rest # <<>> /\ Head(rest) = "}"
                    THEN [ok |-> TRUE, value |-> EmptyObject, rest |-> Tail(rest)]
                    ELSE parse_members(rest, <<>>)
               [] OTHER -> NoParse

\* The elements of an array after "[" or ",", up to the closing "]".
parse_elements(tokens, values) ==
    LET element == parse_value(tokens)
        values1 == Append(values, element.value)
    IN  IF ~element.ok \/ element.rest = <<>> THEN NoParse
        ELSE IF Head(element.rest) = "]"
        THEN [ok |-> TRUE, value |-> <<"arr", values1>>,
              rest |-> Tail(element.rest)]
        ELSE IF Head(element.rest) = ","
        THEN parse_elements(Tail(element.rest), values1)
        ELSE NoParse

\* The order of the keys of serde_json::Map, a BTreeMap<String, Value>.
KeyOrder == <<"", "a", "b">>

key_rank(key) == CHOOSE i \in 1..Len(KeyOrder) : KeyOrder[i] = key

\* Map::insert: the members stay sorted by key, and a key that is already
\* there gets the new value.
map_insert(members, key, value) ==
    LET before(m) == key_rank(m[1]) < key_rank(key)
        after(m) == key_rank(m[1]) > key_rank(key)
    IN  SelectSeq(members, before) \o << <<key, value>> >>
            \o SelectSeq(members, after)

\* The members of an object after "{" or ",", up to the closing "}".
parse_members(tokens, members) ==
    IF Len(tokens) < 3 THEN NoParse
    ELSE LET key == parse_value(<<tokens[1]>>)
             member == parse_value(SubSeq(tokens, 3, Len(tokens)))
             members1 == map_insert(members, key.value[2][1], member.value)
         IN  IF ~key.ok \/ key.value[1] # "str" \/ tokens[2] # ":" THEN NoParse
             ELSE IF ~member.ok \/ member.rest = <<>> THEN NoParse
             ELSE IF Head(member.rest) = "}"
             THEN [ok |-> TRUE, value |-> <<"obj", members1>>,
                   rest |-> Tail(member.rest)]
             ELSE IF Head(member.rest) = ","
             THEN parse_members(Tail(member.rest), members1)
             ELSE NoParse

\* serde_json::from_str(raw).ok(): the value, if the whole text is one value.
from_str(raw) ==
    LET parsed == parse_value(raw)
    IN  IF parsed.ok /\ parsed.rest = <<>> THEN <<parsed.value>> ELSE <<>>

\* Faulty variant: only the string form is decoded.
openai_arguments_string_only(arguments_field) ==
    LET parsed == IF arguments_field[1] = "str"
                  THEN from_str(arguments_field[2]) ELSE <<>>
    IN  IF parsed # <<>> THEN parsed[1] ELSE EmptyObject

\* parse_openai_response, lines 1826-1832: the arguments of a tool call.
openai_arguments(arguments_field) ==
    LET parsed == IF arguments_field[1] = "str"
                  THEN from_str(arguments_field[2]) ELSE <<>>
    IN  IF parsed # <<>> THEN parsed[1]
        ELSE IF arguments_field[1] = "obj" THEN arguments_field
        ELSE EmptyObject

\* parse_openai_responses_response, lines 1895-1898.
responses_arguments(arguments_field) ==
    LET parsed == IF arguments_field[1] = "str"
                  THEN from_str(arguments_field[2]) ELSE <<>>
    IN  IF parsed # <<>> THEN parsed[1] ELSE EmptyObject

\* choices[0].message = [content, reasoning_content, tool_calls], the first
\* two optional strings (reasoning_content may be an array of strings), the
\* third an optional array of <<id, name, arguments>>.
parse_openai_response(body, provider_label, overflow_checks) ==
    LET choice == body.message
        text == IF choice.content # <<>> /\ choice.content[1] # ""
                THEN <<Text(choice.content[1])>> ELSE <<>>
        reasoning_str == IF choice.reasoning_content # <<>>
                            /\ choice.reasoning_content[1][1] = "str"
                         THEN <<choice.reasoning_content[1][2]>> ELSE <<>>
        reasoning_parts == IF choice.reasoning_content # <<>>
                              /\ choice.reasoning_content[1][1] = "arr"
                           THEN choice.reasoning_content[1][2] ELSE <<>>
        as_text == IF text = <<>> /\ reasoning_str # <<>> /\ reasoning_str[1] # ""
                   THEN <<Text(reasoning_str[1])>> ELSE text
        reasoning == IF reasoning_str # <<>> /\ reasoning_str[1] # ""
                     THEN <<<<"reasoning", reasoning_str>>>>
                     ELSE IF reasoning_parts # <<>>
                     THEN <<<<"reasoning", reasoning_parts>>>>
                     ELSE <<>>
        tool_calls == IF choice.tool_calls = <<>> THEN <<>>
                      ELSE [i \in 1..Len(choice.tool_calls[1]) |->
                              LET tc == choice.tool_calls[1][i]
                              IN  make_tool_call(tc[1], tc[2],
                                                 openai_arguments(tc[3]))]
        assistant_content == as_text \o reasoning \o tool_calls
    IN  IF assistant_content = <<>>
        THEN ParseError(<<"empty", "response", "from", provider_label>>)
        ELSE CompletionResponse(assistant_content,
                                unwrap_or(body.usage.input_tokens, 0),
                                unwrap_or(body.usage.output_tokens, 0),
                                overflow_checks)

\* The parts one output item contributes.
responses_item(output_item) ==
    CASE output_item[1] = "message" ->
            LET content_items == output_item[2]
                kept == {i \in 1..Len(content_items) :
                            /\ content_items[i][1] = "output_text"
                            /\ content_items[i][2] # ""}
                RECURSIVE texts(_)
                texts(i) ==
                    IF i > Len(content_items) THEN <<>>
                    ELSE (IF i \in kept THEN <<Text(content_items[i][2])>>
                          ELSE <<>>) \o texts(i + 1)
            IN  texts(1)
      [] output_item[1] = "function_call" ->
            LET call_id == IF output_item[2] # <<>> THEN output_item[2][1]
                           ELSE IF output_item[3] # <<>> THEN output_item[3][1]
                           ELSE ""
            IN  <<make_tool_call(call_id, output_item[4],
                                 responses_arguments(output_item[5]))>>
      [] OTHER -> <<>>

\* output = optional array of <<"message", content>>, with content items
\* <<type, text>>, or <<"function_call", call_id, id, name, arguments>>.
parse_openai_responses_response(body, overflow_checks) ==
    LET RECURSIVE content(_)
        content(output_items) ==
            IF output_items = <<>> THEN <<>>
            ELSE responses_item(Head(output_items)) \o content(Tail(output_items))
    IN  IF body.output = <<>>
        THEN ParseError(<<"missing", "output", "array">>)
        ELSE IF content(body.output[1]) = <<>>
        THEN ParseError(<<"empty", "response", "from", "openai", "responses",
                          "api">>)
        ELSE CompletionResponse(content(body.output[1]),
                                unwrap_or(body.usage.input_tokens, 0),
                                unwrap_or(body.usage.output_tokens, 0),
                                overflow_checks)

\* One part of an event: [text, functionCall], both optional; a function call
\* is <<name, args>> with args optional.  The loop state acc holds
\* text_segments, tool_calls, input_tokens and output_tokens.
antigravity_part(acc, part) ==
    LET acc1 == IF /\ part.text # <<>>
                   /\ part.text[1] # ""
                   /\ (acc.text_segments = <<>>
                        \/ acc.text_segments[Len(acc.text_segments)] # part.text[1])
                THEN [acc EXCEPT !.text_segments = Append(@, part.text[1])]
                ELSE acc
    IN  IF part.functionCall = <<>> THEN acc1
        ELSE LET function_call == part.functionCall[1]
                 name == function_call[1]
                 arguments == IF function_call[2] = <<>> THEN EmptyObject
                              ELSE function_call[2][1]
                 already_present ==
                    \E i \in 1..Len(acc1.tool_calls) :
                        /\ acc1.tool_calls[i][3] = name
                        /\ acc1.tool_calls[i][4] = arguments
                 \* format!("call_{}", Uuid::new_v4()): a fresh id
                 id == "call_" \o ToString(Len(acc1.tool_calls) + 1)
             IN  IF already_present THEN acc1
                 ELSE [acc1 EXCEPT !.tool_calls =
                            Append(@, make_tool_call(id, name, arguments))]

RECURSIVE antigravity_events(_, _)
antigravity_events(acc, events) ==
    IF events = <<>> THEN acc
    ELSE LET event == Head(events)
             RECURSIVE parts(_, _)
             parts(a, ps) == IF ps = <<>> THEN a
                             ELSE parts(antigravity_part(a, Head(ps)), Tail(ps))
             acc1 == parts(acc, event.parts)
         IN  antigravity_events(
                [acc1 EXCEPT
                    !.input_tokens = unwrap_or(event.usage.input_tokens, @),
                    !.output_tokens = unwrap_or(event.usage.output_tokens, @)],
                Tail(events))

RECURSIVE join(_)
\* [String]::join("")
join(text_segments) ==
    IF text_segments = <<>> THEN ""
    ELSE Head(text_segments) \o join(Tail(text_segments))

parse_antigravity_response(events, overflow_checks) ==
    LET acc == antigravity_events([text_segments |-> <<>>, tool_calls |-> <<>>,
                                   input_tokens |-> 0, output_tokens |-> 0],
                                  events)
        assistant_content ==
            (IF acc.text_segments # <<>> THEN <<Text(join(acc.text_segments))>>
             ELSE <<>>) \o acc.tool_calls
    IN  IF assistant_content = <<>>
        THEN ParseError(<<"empty", "response", "from", "antigravity">>)
        ELSE CompletionResponse(assistant_content, acc.input_tokens,
                                acc.output_tokens, overflow_checks)

(***************************************************************************)
(* Provider configurations (LlmManager's table, read by                    *)
(* attempt_completion).                                                    *)
(***************************************************************************)
\* ProviderConfig: the fields model.rs reads, except the API key.  `name`
\* holds the Antigravity project id.
ProviderConfig(api_type, base_url, name) ==
    [api_type |-> api_type, base_url |-> base_url, name |-> name]

\* The table of an instance with every provider of the ring configured with
\* its own API, and base_url as the base URL of the antigravity provider.
DefaultProviders(base_url) ==
    [id \in {"anthropic", "antigravity", "openai", "openrouter", "zhipu"} |->
        CASE id = "anthropic" ->
                ProviderConfig("Anthropic", "https://api.anthropic.com", None)
          [] id = "antigravity" ->
                ProviderConfig("Antigravity", base_url, "rising-fact-p41fc")
          [] id = "openai" ->
                ProviderConfig("OpenAiCompletions", "https://api.openai.com", None)
          [] id = "openrouter" ->
                ProviderConfig("OpenAiCompletions", "https://openrouter.ai/api",
                               None)
          [] id = "zhipu" ->
                ProviderConfig("OpenAiCompletions", "https://api.z.ai/api/paas/v4/",
                               None)]

\* Other tables: a project id that is missing, empty or written with its
\* prefix; a provider configured with the API of another; a provider that is
\* not configured.
ProviderTables(base_urls) ==
    LET table == DefaultProviders("")
        without(id) == [i \in DOMAIN table \ {id} |-> table[i]]
    IN  {DefaultProviders(base_url) : base_url \in base_urls}
          \cup {[table EXCEPT !["antigravity"].name = name] :
                    name \in {None, "projects/", " projects/rising-fact-p41fc "}}
          \cup {[table EXCEPT !["antigravity"] =
                    ProviderConfig("OpenAiCompletions", "https://proxy.example",
                                   None)],
                [table EXCEPT !["openai"] =
                    ProviderConfig("Antigravity", "", "rising-fact-p41fc")],
                [table EXCEPT !["openai"].api_type = "OpenAiResponses"],
                [table EXCEPT !["openai"].api_type = "Gemini"],
                [table EXCEPT !["zhipu"].api_type = "Anthropic"],
                without("openai"), without("anthropic"), without("antigravity")}

\* attempt_completion, lines 93-108: get_anthropic_provider,
\* get_antigravity_provider, get_provider: Some(config), or None when the
\* manager has no such provider.
get_provider(table, id) == IF id \in DOMAIN table THEN <<table[id]>> ELSE <<>>

\* The error of a failed lookup, as attempt_completion maps it.
no_provider(id) == ProviderError(<<"no", "provider", "configured", "for", id>>)

(***************************************************************************)
(* Provider replies.  A round trip is send().await, which fails or yields  *)
(* the status line, and then text().await, which fails or yields the body. *)
(*   failure  "none", "send" or "read": the await that failed              *)
(*   error    the words of the transport error                             *)
(*   status, reason   the status line, e.g. "429", <<"too",..>>            *)
(*   json     the body is JSON text                                        *)
(*   message  body["error"]["message"], <<>> when it is not a string       *)
(*   text     the words of the body as text                                *)
(*   body     what the response parsers read of it: content (Anthropic),   *)
(*            choices[0].message (chat completions), output (Responses),   *)
(*            events (what parse_sse_events returns for it), usage         *)
(***************************************************************************)
\* The body {}.
NoBody ==
    [content |-> <<>>,
     message |-> [content |-> <<>>, reasoning_content |-> <<>>,
                  tool_calls |-> <<>>],
     output  |-> <<>>,
     events  |-> <<>>,
     usage   |-> [input_tokens |-> <<>>, output_tokens |-> <<>>]]

\* A body that answers "hi", in the format of the API that was asked.
HelloBody ==
    [NoBody EXCEPT
        !.content = << << <<"text", "hi">> >> >>,
        !.message.content = <<"hi">>,
        !.output = << << <<"message", << <<"output_text", "hi">> >> >> >> >>,
        !.events = << [parts |-> << [text |-> <<"hi">>, functionCall |-> <<>>] >>,
                       usage |-> NoBody.usage] >>]

Answer(status, reason, message) ==
    [failure |-> "none", error |-> <<>>, status |-> status, reason |-> reason,
     json |-> TRUE, message |-> message,
     text |-> IF message = <<>> THEN <<"{}">> ELSE <<"{\"error\":">> \o message,
     body |-> NoBody]

Reply200 ==
    [Answer("200", <<"ok">>, <<>>) EXCEPT
        !.body = HelloBody, !.text = <<"{\"content\":", "hi">>]

\* A success status other than 200.
Reply201 == [Reply200 EXCEPT !.status = "201", !.reason = <<"created">>]

Reply401 == Answer("401", <<"unauthorized">>, <<"invalid", "credentials">>)

Reply429 ==
    Answer("429", <<"too", "many", "requests">>, <<"rate", "limit", "exceeded">>)

Reply503 ==
    Answer("503", <<"service", "unavailable">>, <<"temporarily", "unavailable">>)

Reply404 == Answer("404", <<"not", "found">>, <<"no", "such", "route">>)

Reply400 ==
    Answer("400", <<"bad", "request">>, <<"requested entity", "was", "not found">>)

\* Further answers of the Antigravity endpoints.
Reply400Entity ==
    Answer("400", <<"bad", "request">>, <<"Requested entity", "was", "not found">>)

Reply400Argument == Answer("400", <<"bad", "request">>, <<"invalid", "argument">>)

Reply403Model == Answer("403", <<"forbidden">>, <<"Model", "is", "Unsupported">>)

Reply403Entity ==
    Answer("403", <<"forbidden">>, <<"requested entity", "is", "unavailable">>)

Reply403Permission ==
    Answer("403", <<"forbidden">>, <<"permission", "denied", "for", "model">>)

\* Round trips that fail without an error status: the body {}, an SSE
\* stream whose only event has no parts, a body that is not JSON (with a 2xx
\* and with a 5xx status), a request that cannot be sent (the first error is
\* one the retry loop retries), a body that cannot be read.
Reply200Empty == Answer("200", <<"ok">>, <<>>)

Reply200NoParts ==
    [Reply200Empty EXCEPT
        !.json = FALSE, !.text = <<"data:", "{}">>,
        !.body.events = << [parts |-> <<>>, usage |-> NoBody.usage] >>]

Reply200Html == [Reply200Empty EXCEPT !.json = FALSE, !.text = <<"<html>">>]

Reply502Html ==
    [Answer("502", <<"bad", "gateway">>, <<>>) EXCEPT
        !.json = FALSE, !.text = <<"<html>">>]

SendRefused ==
    [Answer(None, <<>>, <<>>) EXCEPT
        !.failure = "send", !.error = <<"connection", "refused">>, !.text = <<>>]

SendDns == [SendRefused EXCEPT !.error = <<"dns", "error">>]

ReadFailed ==
    [Reply200Empty EXCEPT
        !.failure = "read", !.text = <<>>,
        !.error = <<"error", "decoding", "response", "body">>]

HttpReplies == {Reply200, Reply401, Reply429, Reply503}

AntigravityReplies == {Reply200, Reply401, Reply429, Reply404, Reply400}

AdvanceReplies ==
    {Reply200, Reply401, Reply404, Reply400Entity, Reply400Argument,
     Reply403Model, Reply403Entity, Reply403Permission}

FailureReplies ==
    {Reply200Empty, Reply200NoParts, Reply200Html, SendRefused, SendDns,
     ReadFailed}

\* What the providers behind the single-request invokers answer, and what
\* the Antigravity endpoints answer.
SingleAnswers ==
    HttpReplies \cup FailureReplies \cup {Reply502Html, Reply201}

AntigravityAnswers ==
    AntigravityReplies \cup AdvanceReplies \cup FailureReplies
        \cup {Reply502Html, Reply201}

\* The status line of a response, which send().await yields.
Response(reply) == [status |-> reply.status, reason |-> reply.reason]

NoResponse == [status |-> None, reason |-> <<>>]

\* http::StatusCode::is_success: the statuses 200 to 299.
SuccessStatuses == {ToString(n) : n \in 200..299}

status_is_success(status) == status \in SuccessStatuses

is_success(reply) == status_is_success(reply.status)

Ok(model) == [ok |-> TRUE, from |-> model, error |-> NoError]

Err(error) == [ok |-> FALSE, from |-> <<>>, error |-> error]

NoOutcome == [ok |-> FALSE, from |-> <<>>, error |-> NoError]

\* attempt_completion, lines 87-91.
provider_id(model) == model.full_model_name[1]

\* attempt_completion, lines 110-139: the function that sends the request:
\* two provider ids have a path of their own, every other provider goes by
\* the api_type of its configuration.
invoker(id, provider_config) ==
    IF id \in {"zai-coding-plan", "zhipu"}
    THEN "call_openai_compatible_with_optional_auth"
    ELSE CASE provider_config.api_type = "Anthropic" -> "call_anthropic"
           [] provider_config.api_type = "OpenAiCompletions" -> "call_openai"
           [] provider_config.api_type = "OpenAiResponses" ->
                "call_openai_responses"
           [] provider_config.api_type = "Gemini" -> "call_openai_compatible"
           [] provider_config.api_type = "Antigravity" -> "call_antigravity"

\* The name of the provider in the error messages of an invoker.
display_name(id, provider_config) ==
    CASE id = "zhipu" -> "Z.AI (GLM)"
      [] id = "zai-coding-plan" -> "Z.AI Coding Plan"
      [] provider_config.api_type = "Anthropic" -> "Anthropic"
      [] provider_config.api_type = "OpenAiCompletions" -> "OpenAI"
      [] provider_config.api_type = "OpenAiResponses" -> "OpenAI Responses API"
      [] provider_config.api_type = "Gemini" -> "Google Gemini"
      [] OTHER -> "Antigravity"

\* The single-request invokers (call_anthropic, call_openai,
\* call_openai_responses, call_openai_compatible,
\* call_openai_compatible_with_optional_auth): what they return for a round
\* trip.  The body is parsed as JSON before the status is looked at.
call_provider(model, provider_config, reply) ==
    LET id == provider_id(model)
        label == display_name(id, provider_config)
        status == <<reply.status>> \o reply.reason
        parsed ==
            CASE invoker(id, provider_config) = "call_anthropic" ->
                    parse_anthropic_response(reply.body, TRUE)
              [] invoker(id, provider_config) = "call_openai_responses" ->
                    parse_openai_responses_response(reply.body, TRUE)
              [] OTHER -> parse_openai_response(reply.body, label, TRUE)
    IN  IF reply.failure = "send" THEN Err(ProviderError(reply.error))
        ELSE IF reply.failure = "read"
        THEN Err(ProviderError(<<"failed", "to", "read", "response", "body:">>
                               \o reply.error))
        ELSE IF ~reply.json
        THEN Err(ProviderError(<<label, "response">> \o status
                               \o <<"is", "not", "valid", "JSON:", "expected",
                                    "value", "at", "line", "1", "column", "1",
                                    "Body:">> \o reply.text))
        ELSE IF ~is_success(reply)
        THEN Err(ProviderError(
                    (IF invoker(id, provider_config) = "call_openai_responses"
                     THEN <<label, "error">> ELSE <<label, "API", "error">>)
                    \o status
                    \o (IF reply.message = <<>> THEN <<"unknown", "error">>
                        ELSE reply.message)))
        ELSE IF parsed.status = "ok" THEN Ok(model.full_model_name)
        ELSE Err(parsed.error)

\* The URL a single-request invoker posts to.  call_anthropic takes it from
\* build_anthropic_request, which gets the base URL.
request_url(id, provider_config) ==
    LET base_url == trim_end_matches(provider_config.base_url)
        called == invoker(id, provider_config)
    IN  CASE called = "call_openai" -> base_url \o "/v1/chat/completions"
          [] called = "call_openai_responses" -> base_url \o "/v1/responses"
          [] called = "call_openai_compatible" -> base_url \o "/chat/completions"
          [] called = "call_openai_compatible_with_optional_auth" ->
                base_url \o "/chat/completions"
          [] OTHER -> provider_config.base_url

(***************************************************************************)
(* Antigravity: candidate models and endpoints (call_antigravity).         *)
(***************************************************************************)
\* str::starts_with over the Antigravity model names.
starts_with(name, prefix) ==
    CASE prefix = "claude-sonnet-4-" ->
            name \in {"claude-sonnet-4-5", "claude-sonnet-4-5-thinking",
                      "claude-sonnet-4-6", "claude-sonnet-4-6-thinking"}
      [] prefix = "claude-opus-4-" ->
            name \in {"claude-opus-4-5", "claude-opus-4-5-thinking",
                      "claude-opus-4-6", "claude-opus-4-6-thinking"}
      [] prefix = "gemini-3-pro" ->
            name \in {"gemini-3-pro", "gemini-3-pro-high", "gemini-3-pro-low"}
      [] prefix = "gemini-3.1-pro" ->
            name \in {"gemini-3.1-pro", "gemini-3.1-pro-high", "gemini-3.1-pro-low"}
      [] OTHER -> FALSE

\* Option<&str>: "" stands for None.
antigravity_model_alias(model_name) ==
    CASE model_name = "claude-opus-4-5" -> "claude-opus-4-6-thinking"
      [] model_name = "claude-opus-4-5-thinking" -> "claude-opus-4-6-thinking"
      [] model_name = "claude-opus-4-6" -> "claude-opus-4-6-thinking"
      [] model_name = "claude-sonnet-4-5" -> "claude-sonnet-4-6"
      [] model_name = "claude-sonnet-4-5-thinking" -> "claude-sonnet-4-6"
      [] model_name = "claude-sonnet-4-6-thinking" -> "claude-sonnet-4-6"
      [] model_name = "gemini-3-pro" -> "gemini-3-pro-high"
      [] model_name = "gemini-3.1-pro" -> "gemini-3.1-pro-high"
      [] OTHER -> None

\* The closure add_model: push unless already present.
add_model(list, name) ==
    IF \E i \in 1..Len(list) : list[i] = name
    THEN list
    ELSE Append(list, name)

\* if let Some(alias) = alias { add_model(alias) }: no alias adds nothing.
add_alias(list, alias) == IF alias = None THEN list ELSE add_model(list, alias)

RECURSIVE add_models(_, _)
add_models(list, names) ==
    IF names = <<>> THEN list
    ELSE add_models(add_model(list, Head(names)), Tail(names))

\* Faulty variant: the requested model is always the first candidate.
antigravity_model_candidates_requested_first(requested) ==
    add_models(add_alias(add_model(<<>>, requested),
                         antigravity_model_alias(requested)),
               <<"claude-sonnet-4-6", "claude-sonnet-4-5-thinking">>)

antigravity_model_candidates(requested) ==
    LET prefer_alias_first ==
            requested \in {"claude-opus-4-5", "claude-opus-4-5-thinking",
                           "claude-sonnet-4-5", "claude-sonnet-4-5-thinking"}
        alias == antigravity_model_alias(requested)
        c1 == IF prefer_alias_first
              THEN add_model(add_alias(<<>>, alias), requested)
              ELSE add_alias(add_model(<<>>, requested), alias)
        c2 == IF \/ starts_with(requested, "claude-sonnet-4-")
                 \/ requested = "claude-sonnet-4-6-thinking"
              THEN add_models(c1, <<"claude-sonnet-4-6",
                                    "claude-sonnet-4-5-thinking",
                                    "claude-sonnet-4-5">>)
              ELSE c1
        c3 == IF starts_with(requested, "claude-opus-4-")
              THEN add_models(c2, <<"claude-opus-4-6-thinking",
                                    "claude-opus-4-5-thinking">>)
              ELSE c2
        c4 == IF \/ starts_with(requested, "gemini-3-pro")
                 \/ starts_with(requested, "gemini-3.1-pro")
              THEN add_models(c3, <<"gemini-3.1-pro-high", "gemini-3.1-pro-low",
                                    "gemini-3-pro-high", "gemini-3-pro-low">>)
              ELSE c3
    IN  IF requested = "gemini-3-pro" \/ requested = "gemini-3.1-pro"
        THEN add_models(c4, <<"gemini-3.1-pro-high", "gemini-3-pro-high">>)
        ELSE c4

\* Faulty variant: the default endpoint is appended without the check.
antigravity_endpoints_default_appended(base_url) ==
    LET configured == trim_end_matches(base_url)
        e1 == <<SandboxEndpoint>>
        e2 == IF configured # "" /\ configured # SandboxEndpoint
              THEN Append(e1, configured) ELSE e1
    IN  Append(e2, DefaultEndpoint)

\* call_antigravity, lines 899-907: the endpoint list: sandbox, then the
\* configured base URL, then the default.
antigravity_endpoints(base_url) ==
    LET contains_endpoint(list, url) == \E i \in 1..Len(list) : list[i] = url
        configured == trim_end_matches(base_url)
        e1 == <<SandboxEndpoint>>
        e2 == IF configured # "" /\ ~contains_endpoint(e1, configured)
              THEN Append(e1, configured) ELSE e1
    IN  IF ~contains_endpoint(e2, DefaultEndpoint)
        THEN Append(e2, DefaultEndpoint) ELSE e2

\* str::to_ascii_lowercase on the words of a message.
to_ascii_lowercase(message) ==
    LET lower(word) ==
            CASE word = "Requested entity" -> "requested entity"
              [] word = "Model" -> "model"
              [] word = "Unsupported" -> "unsupported"
              [] OTHER -> word
    IN  [i \in 1..Len(message) |-> lower(message[i])]

\* Faulty variant: a 403 counts without a mention of the model, and the
\* message is compared as it is.
should_try_next_antigravity_model_any_403(status, message) ==
    /\ status \in {"404", "400", "403"}
    /\ (status = "404"
          \/ \E word \in {"not found", "requested entity", "unknown",
                           "unsupported", "unavailable", "no longer available"} :
                contains(message, word))

should_try_next_antigravity_model(status, message) ==
    LET message_lower == to_ascii_lowercase(message)
        mentions_model == contains(message_lower, "model")
        looks_like_missing_or_mismatch ==
            \/ contains(message_lower, "not found")
            \/ contains(message_lower, "requested entity")
            \/ contains(message_lower, "unknown")
            \/ contains(message_lower, "unsupported")
            \/ contains(message_lower, "unavailable")
            \/ contains(message_lower, "no longer available")
    IN  \/ status = "404"
        \/ (status = "400" /\ looks_like_missing_or_mismatch)
        \/ (status = "403" /\ mentions_model /\ looks_like_missing_or_mismatch)

\* call_antigravity, lines 962-965: the message of a non-2xx answer is the
\* error message of its JSON body, else the body as text (truncate_body
\* keeps the bodies used here whole).
antigravity_message(reply) ==
    IF reply.json /\ reply.message # <<>> THEN reply.message ELSE reply.text

antigravity_error(reply, base_endpoint, model_name) ==
    ProviderError(<<"Antigravity", "API", "error", reply.status>> \o reply.reason
                  \o <<"from", base_endpoint, "using", "model", model_name>>
                  \o antigravity_message(reply))

\* str::trim and trim_start_matches("projects/") on the project ids used
\* here.
trim_project_id(name) ==
    CASE name = "projects/" -> ""
      [] name = " projects/rising-fact-p41fc " -> "rising-fact-p41fc"
      [] OTHER -> name

\* call_antigravity, lines 878-893: the error returned before any request
\* when the configuration has no usable project id, NoError otherwise (the
\* command in the second message is written without its quotation marks).
project_id_error(provider_config) ==
    IF provider_config.name = None
    THEN ProviderError(<<"antigravity", "provider", "requires", "a",
                         "project_id", "(set", "llm.antigravity_project_id",
                         "or", "use", "antigravity", "OAuth", "login)">>)
    ELSE IF trim_project_id(provider_config.name) = ""
    THEN ProviderError(<<"antigravity", "project_id", "is", "empty;",
                         "re-run", "spacebot", "auth", "login", "--provider",
                         "antigravity">>)
    ELSE NoError

(***************************************************************************)
(* The state of one completion() call.                                     *)
(*   pc: idle, check_primary, invoke, send, text, antigravity,             *)
(*       antigravity_text, backoff, failed, check_fallback, done           *)
(***************************************************************************)
NoModel ==
    [provider |-> "", model_name |-> <<>>, full_model_name |-> <<>>,
     routing |-> FALSE]

NoPending == [error |-> NoError, was_rate_limit |-> FALSE]

IdleCall ==
    [pc                   |-> "idle",
     self                 |-> NoModel,   \* the binding completion() runs on
     fallbacks            |-> <<>>,      \* routing.get_fallbacks(full_model_name)
     primary_rate_limited |-> FALSE,
     last_error           |-> NoError,   \* completion's last_error
     index                |-> 0,         \* 0: primary, k: k-th fallback
     model_name           |-> <<>>,      \* attempt_with_retries' model_name
     attempt              |-> 0,         \* attempt_with_retries' loop counter
     retry_last           |-> <<>>,      \* attempt_with_retries' last_error
     wake                 |-> 0,         \* when the backoff sleep ends
     due                  |-> 0,         \* when the awaited I/O is over
     response             |-> NoResponse,\* the response whose body is awaited
     pending              |-> NoPending, \* Err((error, was_rate_limit))
     mi                   |-> 0,         \* call_antigravity: candidate index
     ei                   |-> 0,         \* call_antigravity: endpoint index
     ag_last              |-> NoError,   \* call_antigravity's last_error
     result               |-> NoOutcome]

(***************************************************************************)
(* Observations of one completion() call, kept beside the program state:   *)
(* what the call did, as seen from outside (requests sent, tracker reads   *)
(* and writes, errors received).  The program never reads them.            *)
(***************************************************************************)
IdleObs ==
    [calls         |-> 0,        \* invoker calls of the completion() call
     invocations   |-> 0,        \* invoker calls of the current retry loop
     http          |-> 0,        \* HTTP requests of the current retry loop
     failures      |-> 0,        \* retriable failures of the current retry loop
     primary_http  |-> FALSE,    \* an HTTP request was sent for the primary
     primary_429s  |-> 0,        \* invoker calls made for the primary while every
                                 \* reply for it had status 429; -1 after another
     tried         |-> <<>>,     \* positions whose retry loop started, in order
     checked       |-> <<>>,     \* is_rate_limited calls: [index, limited, at,
                                 \* records (made before the call)]
     succeeded     |-> <<>>,     \* positions whose invoker returned a response
     recorded      |-> <<>>,     \* record_rate_limit calls, with the loop's state
     wire          |-> <<>>,     \* requests of the current call_antigravity run:
                                 \* [mi, ei, model, endpoint, reply]
     posted        |-> "",       \* the URL of the last single request
     sleeps        |-> <<>>,     \* backoff sleeps of the current retry loop:
                                 \* [before, delay_ms, elapsed, invocations,
                                 \* failures]
     last_observed |-> NoError]  \* last error an invoker call returned

\* is_rate_limited was called for position index and returned limited.
observe_check(o, index, limited) ==
    [o EXCEPT !.checked = Append(@, [index |-> index, limited |-> limited,
                                     at |-> now, records |-> Len(history)])]

\* A retry loop starts at position index: its counters start afresh.
observe_start(o, index) ==
    [o EXCEPT !.invocations = 0, !.http = 0, !.failures = 0, !.sleeps = <<>>,
              !.tried = Append(@, index)]

\* Faulty variant: every backoff sleep has the base length.
delay_ms_constant(attempt) == RETRY_BASE_DELAY_MS

\* attempt_with_retries, line 162: the length of the sleep before attempt.
delay_ms(attempt) == RETRY_BASE_DELAY_MS * Pow2(attempt - 1)

\* The retry loop slept before the invoker call numbered attempt, from the
\* time `from` to the time `until`.
observe_sleep(o, attempt, from, until) ==
    [o EXCEPT !.sleeps = Append(@, [before      |-> attempt,
                                    delay_ms    |-> delay_ms(attempt),
                                    elapsed     |-> until - from,
                                    invocations |-> o.invocations,
                                    failures    |-> o.failures])]

\* An invoker call starts.
observe_invocation(o, index) ==
    [o EXCEPT !.calls = @ + 1,
              !.invocations = @ + 1,
              !.primary_429s = IF index = 0 /\ @ >= 0 THEN @ + 1 ELSE @]

\* An invoker call returned without sending a request.
observe_no_request(o, index) ==
    [o EXCEPT !.primary_429s = IF index = 0 THEN -1 ELSE @, !.wire = <<>>]

\* A single-request invoker posts to url.
observe_post(o, url) == [o EXCEPT !.posted = url]

\* An HTTP request was sent; send().await returned reply's status line or
\* failed.
observe_http(o, index, reply) ==
    [o EXCEPT !.http = @ + 1,
              !.primary_http = IF index = 0 THEN TRUE ELSE @,
              !.primary_429s =
                    IF index = 0 /\ reply.status # "429" THEN -1 ELSE @]

\* call_antigravity sent the request for (candidate mi, endpoint ei).
observe_wire(o, mi, ei, model_name, base_endpoint, reply) ==
    [o EXCEPT !.wire = Append(@, [mi |-> mi, ei |-> ei, model |-> model_name,
                                  endpoint |-> base_endpoint, reply |-> reply])]

\* An invoker call returned outcome.
observe_outcome(o, index, outcome) ==
    IF outcome.ok
    THEN [o EXCEPT !.succeeded = Append(@, index)]
    ELSE [o EXCEPT
            !.last_observed = outcome.error,
            !.failures = IF is_retriable_error(to_string(outcome.error))
                         THEN @ + 1 ELSE @]

\* attempt_with_retries, lines 153-157: the binding the loop invokes.
run_model(c) ==
    IF c.model_name = c.self.full_model_name THEN c.self ELSE make(c.model_name)

\* attempt_with_retries, lines 159-170: enter the loop for model_name.
start_retries(c, index, model_name) ==
    [c EXCEPT !.pc = "invoke", !.index = index, !.model_name = model_name,
              !.attempt = 0, !.retry_last = <<>>]

(***************************************************************************)
(* Faulty variants of the engine's rules.  A property of the engine is     *)
(* expected to fail when the rule it rests on is replaced by its variant.  *)
(***************************************************************************)
\* The retry loop runs one iteration too many.
has_next_attempt_off_by_one(attempt) == attempt + 1 <= MAX_RETRIES_PER_MODEL

\* Exhausting the retries always reports a rate limit.
exhausted_always_rate_limit(model_name, error_str) ==
    [error |-> ProviderError(<<Join(model_name), "failed", "after",
                               ToString(MAX_RETRIES_PER_MODEL), "attempts:">>
                             \o error_str),
     was_rate_limit |-> TRUE]

\* The primary is attempted although it is in cooldown.
skip_primary_never(primary_rate_limited, fallbacks) == FALSE

\* The fallback loop walks the whole configured list.
fallbacks_to_try_all(fallbacks) == Len(fallbacks)

\* The error of the last attempt is dropped.
final_error_always_synthetic(last_error) ==
    ProviderError(<<"all", "models", "in", "fallback", "chain", "failed">>)

\* A rate-limited model is never put in cooldown.
record_if_rate_limited_never(map, was_rate_limit, model_name, t) == map

\* attempt_with_retries, line 160: the loop `for attempt in 0..MAX_RETRIES_PER_MODEL`
\* has another iteration after the one numbered attempt.
has_next_attempt(attempt) == attempt + 1 < MAX_RETRIES_PER_MODEL

\* Faulty variant: a non-retriable error is reported as a rate limit.
bail_as_rate_limit(error) == [error |-> error, was_rate_limit |-> TRUE]

\* attempt_with_retries, lines 176-179: a non-retriable error is returned as it is.
bail(error) == [error |-> error, was_rate_limit |-> FALSE]

\* attempt_with_retries, lines 191-198: the result after the last retry.
exhausted(model_name, error_str) ==
    [error |-> ProviderError(<<Join(model_name), "failed", "after",
                               ToString(MAX_RETRIES_PER_MODEL), "attempts:">>
                             \o error_str),
     was_rate_limit |-> is_rate_limit_error(error_str)]

\* attempt_with_retries, lines 172-198: what the loop does with the outcome of
\* an invoker call that returned at time `at`.
attempt_with_retries(c0, outcome, at) ==
    LET c == [c0 EXCEPT !.mi = 0, !.ei = 0, !.ag_last = NoError,
                        !.response = NoResponse, !.due = 0,
                        !.attempt = 0, !.retry_last = <<>>]
        error_str == to_string(outcome.error)
    IN  IF outcome.ok
        THEN [c EXCEPT !.pc = "done", !.result = outcome]
        ELSE IF ~is_retriable_error(error_str)
        THEN [c EXCEPT !.pc = "failed", !.pending = bail(outcome.error)]
        ELSE IF has_next_attempt(c0.attempt)
        THEN [c EXCEPT !.pc = "backoff", !.attempt = c0.attempt + 1,
                       !.wake = at + delay_ms(c0.attempt + 1),
                       !.retry_last = error_str]
        ELSE [c EXCEPT !.pc = "failed",
                       !.pending = exhausted(c.model_name, error_str)]

\* Faulty variant: a binding without routing config is retried as well.
returned_always_retries(c, outcome, at) == attempt_with_retries(c, outcome, at)

\* The invoker call of task state c returned outcome at time `at`:
\* completion() without a routing config returns it as it is (line 243),
\* otherwise it goes to the retry loop.
returned(c, outcome, at) ==
    IF c.self.routing
    THEN attempt_with_retries(c, outcome, at)
    ELSE [c EXCEPT !.pc = "done", !.result = outcome, !.mi = 0, !.ei = 0,
                   !.ag_last = NoError, !.response = NoResponse, !.due = 0]

\* completion, line 257.
skip_primary(primary_rate_limited, fallbacks) ==
    primary_rate_limited /\ fallbacks # <<>>

\* Faulty variant: the fallback loop takes one fallback more.
fallbacks_to_try_one_more(fallbacks) ==
    Min(Len(fallbacks), MAX_FALLBACK_ATTEMPTS + 1)

\* completion, line 290: `fallbacks.iter().take(MAX_FALLBACK_ATTEMPTS)`.
fallbacks_to_try(fallbacks) == Min(Len(fallbacks), MAX_FALLBACK_ATTEMPTS)

\* completion, lines 326-328.
final_error(last_error) ==
    IF last_error = NoError
    THEN ProviderError(<<"all", "models", "in", "fallback", "chain", "failed">>)
    ELSE last_error

\* completion, lines 271-275 and 314-316.
record_if_rate_limited(map, was_rate_limit, model_name, t) ==
    IF was_rate_limit THEN record_rate_limit(map, model_name, t) ELSE map

\* completion, lines 290 and 326-328: the fallback loop reaches position index.
fallback_loop(c, index) ==
    IF index <= fallbacks_to_try(c.fallbacks)
    THEN [c EXCEPT !.pc = "check_fallback", !.index = index]
    ELSE [c EXCEPT !.pc = "done", !.index = index,
                   !.result = Err(final_error(c.last_error))]

(***************************************************************************)
(* Actions.  Every await of the code is a step of its own.  An await on    *)
(* the network takes one of the times of env.latencies, counted from the   *)
(* moment the await begins: the step that begins it notes when it is over  *)
(* (due), and the step that ends it is taken at that time, or later when   *)
(* the clock has passed it while other tasks ran.  Awaits of different     *)
(* tasks therefore overlap.  The awaits on the manager's in-memory locks   *)
(* take no measurable time.                                                *)
(***************************************************************************)
\* When an await that begins at time `at` and takes elapsed is over (0: as
\* soon as the task is polled).
deadline(at, elapsed) == IF elapsed = 0 THEN 0 ELSE at + elapsed

\* A caller makes a binding and calls completion() (lines 240-247).
completion_begin(t) ==
    /\ call[t].pc = "idle"
    /\ \E id \in env.identifiers[t], with \in env.with :
         LET self == IF with THEN with_routing(make(id)) ELSE make(id)
         IN  call' = [call EXCEPT ![t] =
                [IdleCall EXCEPT
                    !.pc = IF with THEN "check_primary" ELSE "invoke",
                    !.self = self,
                    !.model_name = self.full_model_name,
                    !.fallbacks = IF with
                                  THEN get_fallbacks(routing, self.full_model_name)
                                  ELSE <<>>]]
    /\ obs' = [obs EXCEPT ![t] = IdleObs]
    /\ UNCHANGED <<now, tracker, history, routing, providers, env, restVars>>

\* completion, lines 252-267: the primary's cooldown check.
check_primary(t) ==
    LET c == call[t]
        limited == is_rate_limited(tracker, c.self.full_model_name,
                                   routing.rate_limit_cooldown_secs, now)
        c1 == [c EXCEPT !.primary_rate_limited = limited]
    IN  /\ c.pc = "check_primary"
        /\ call' = [call EXCEPT ![t] =
                IF skip_primary(limited, c.fallbacks)
                THEN fallback_loop(c1, 1)
                ELSE start_retries(c1, 0, c.self.full_model_name)]
        /\ obs' = [obs EXCEPT ![t] =
                LET o == observe_check(@, 0, limited)
                IN  IF call'[t].pc = "invoke" THEN observe_start(o, 0) ELSE o]
        /\ UNCHANGED <<now, tracker, history, routing, providers, env, restVars>>

\* attempt_with_retries, lines 161-170: the backoff sleep, which began when
\* the failed attempt returned, ends: delay_ms have passed, or more when the
\* task is resumed late.
backoff(t) ==
    /\ call[t].pc = "backoff"
    /\ now' = Max(now, call[t].wake)
    /\ call' = [call EXCEPT ![t].pc = "invoke", ![t].wake = 0]
    /\ obs' = [obs EXCEPT ![t] =
            observe_sleep(@, call[t].attempt,
                          call[t].wake - delay_ms(call[t].attempt), now')]
    /\ UNCHANGED <<tracker, history, routing, providers, env, restVars>>

\* provider_config.base_url of the provider a binding names.
base_url_of(model) == providers[provider_id(model)].base_url

\* The provider a binding names is configured and is served by
\* call_antigravity.
is_antigravity(model) ==
    /\ provider_id(model) \in DOMAIN providers
    /\ invoker(provider_id(model), providers[provider_id(model)])
          = "call_antigravity"

\* attempt_completion, lines 83-140, up to the first request: the provider
\* lookup, which fails when the provider is not configured, and the choice
\* of the invoker; call_antigravity, lines 878-907, which fails without a
\* project id and otherwise starts its loops.
attempt_completion(t) ==
    LET c == call[t]
        model == run_model(c)
        id == provider_id(model)
        found == get_provider(providers, id)
        started == observe_invocation(obs[t], c.index)
        fails(error) ==
            /\ call' = [call EXCEPT ![t] = returned(c, Err(error), now)]
            /\ obs' = [obs EXCEPT ![t] =
                    observe_outcome(observe_no_request(started, c.index),
                                    c.index, Err(error))]
    IN  /\ c.pc = "invoke"
        /\ IF found = <<>> THEN fails(no_provider(id))
           ELSE IF invoker(id, found[1]) = "call_antigravity"
           THEN IF project_id_error(found[1]) # NoError
                THEN fails(project_id_error(found[1]))
                ELSE /\ \E elapsed \in env.latencies :
                          call' = [call EXCEPT ![t] =
                            [c EXCEPT !.pc = "antigravity", !.mi = 1, !.ei = 1,
                                      !.ag_last = NoError,
                                      !.due = deadline(now, elapsed)]]
                     /\ obs' = [obs EXCEPT ![t] = [started EXCEPT !.wire = <<>>]]
           ELSE /\ \E elapsed \in env.latencies :
                     call' = [call EXCEPT ![t] =
                        [c EXCEPT !.pc = "send",
                                  !.due = deadline(now, elapsed)]]
                /\ obs' = [obs EXCEPT ![t] =
                        observe_post(started, request_url(id, found[1]))]
        /\ UNCHANGED <<now, tracker, history, routing, providers, env, restVars>>

\* The replies that can follow a status line.
bodies(replies, response) ==
    {reply \in replies : reply.failure # "send" /\ Response(reply) = response}

\* A single-request invoker at send().await: the request fails, or the
\* status line of the response arrives.
send(t) ==
    LET c == call[t]
        model == run_model(c)
    IN  /\ c.pc = "send"
        /\ now' = Max(now, c.due)
        /\ \E reply \in SingleAnswers \cap env.replies, elapsed \in env.latencies :
             LET sent == observe_http(obs[t], c.index, reply)
                 outcome == call_provider(model, providers[provider_id(model)],
                                          reply)
             IN  IF reply.failure = "send"
                 THEN /\ call' = [call EXCEPT ![t] = returned(c, outcome, now')]
                      /\ obs' = [obs EXCEPT ![t] =
                                    observe_outcome(sent, c.index, outcome)]
                 ELSE /\ call' = [call EXCEPT ![t] =
                            [c EXCEPT !.pc = "text", !.response = Response(reply),
                                      !.due = deadline(now', elapsed)]]
                      /\ obs' = [obs EXCEPT ![t] = sent]
        /\ UNCHANGED <<tracker, history, routing, providers, env, restVars>>

\* A single-request invoker at response.text().await and up to its return:
\* the body arrives or cannot be read.
response_text(t) ==
    LET c == call[t]
        model == run_model(c)
    IN  /\ c.pc = "text"
        /\ now' = Max(now, c.due)
        /\ \E reply \in bodies(SingleAnswers \cap env.replies,
                               c.response) :
             LET outcome == call_provider(model, providers[provider_id(model)],
                                          reply)
             IN  /\ call' = [call EXCEPT ![t] = returned(c, outcome, now')]
                 /\ obs' = [obs EXCEPT ![t] =
                                observe_outcome(@, c.index, outcome)]
        /\ UNCHANGED <<tracker, history, routing, providers, env, restVars>>

\* call_antigravity, lines 909-997: what the candidate and endpoint loops do
\* with the round trip for (candidate mi, endpoint ei): either the invocation
\* returns outcome, or the loops move on to (mi, ei).
antigravity_reply(c, model_candidates, endpoints, reply) ==
    LET error == antigravity_error(reply, endpoints[c.ei], model_candidates[c.mi])
        returns(outcome) ==
            [returned |-> TRUE, outcome |-> outcome, mi |-> 0, ei |-> 0,
             last_error |-> NoError]
        next_model ==
            IF c.mi < Len(model_candidates)
            THEN [returned |-> FALSE, outcome |-> NoOutcome, mi |-> c.mi + 1,
                  ei |-> 1, last_error |-> error]
            ELSE returns(Err(error))
        next_endpoint ==
            IF c.ei < Len(endpoints)
            THEN [returned |-> FALSE, outcome |-> NoOutcome, mi |-> c.mi,
                  ei |-> c.ei + 1, last_error |-> error]
            ELSE next_model
        events == reply.body.events
        parsed == parse_antigravity_response(events, TRUE)
    IN  IF reply.failure = "send" THEN returns(Err(ProviderError(reply.error)))
        ELSE IF reply.failure = "read"
        THEN returns(Err(ProviderError(<<"failed", "to", "read", "response",
                                         "body:">> \o reply.error)))
        ELSE IF ~is_success(reply)
        THEN IF reply.status = "404" THEN next_endpoint
             ELSE IF should_try_next_antigravity_model(reply.status,
                                                       antigravity_message(reply))
             THEN next_model
             ELSE returns(Err(error))
        ELSE IF events = <<>>
        THEN returns(Err(ResponseError(<<"empty", "SSE", "response", "from",
                                         "Antigravity">>)))
        ELSE IF parsed.status = "ok"
        THEN returns(Ok(run_model(c).full_model_name))
        ELSE returns(Err(parsed.error))

\* The round trip of task state c is over with reply at time `at`: the
\* loops of call_antigravity go on or the invocation returns.
antigravity_round_trip(t, sent, reply, at, elapsed) ==
    LET c == call[t]
        model == run_model(c)
        model_candidates == antigravity_model_candidates(Join(model.model_name))
        endpoints == antigravity_endpoints(base_url_of(model))
        r == antigravity_reply(c, model_candidates, endpoints, reply)
        o == observe_wire(sent, c.mi, c.ei, model_candidates[c.mi],
                          endpoints[c.ei], reply)
    IN  /\ call' = [call EXCEPT ![t] =
                IF r.returned
                THEN returned(c, r.outcome, at)
                ELSE [c EXCEPT !.pc = "antigravity", !.mi = r.mi, !.ei = r.ei,
                               !.ag_last = r.last_error,
                               !.response = NoResponse,
                               !.due = deadline(at, elapsed)]]
        /\ obs' = [obs EXCEPT ![t] =
                IF r.returned THEN observe_outcome(o, c.index, r.outcome) ELSE o]

\* call_antigravity at send().await: the request of the loops fails, or the
\* status line of the response arrives.
call_antigravity(t) ==
    LET c == call[t]
    IN  /\ c.pc = "antigravity"
        /\ now' = Max(now, c.due)
        /\ \E reply \in AntigravityAnswers \cap env.replies,
              elapsed \in env.latencies :
             LET sent == observe_http(obs[t], c.index, reply)
             IN  IF reply.failure = "send"
                 THEN antigravity_round_trip(t, sent, reply, now', elapsed)
                 ELSE /\ call' = [call EXCEPT ![t] =
                            [c EXCEPT !.pc = "antigravity_text",
                                      !.response = Response(reply),
                                      !.due = deadline(now', elapsed)]]
                      /\ obs' = [obs EXCEPT ![t] = sent]
        /\ UNCHANGED <<tracker, history, routing, providers, env, restVars>>

\* call_antigravity at response.text().await and up to the next request or
\* the return.
antigravity_text(t) ==
    LET c == call[t]
    IN  /\ c.pc = "antigravity_text"
        /\ now' = Max(now, c.due)
        /\ \E reply \in bodies(AntigravityAnswers \cap env.replies, c.response),
              elapsed \in env.latencies :
             antigravity_round_trip(t, obs[t], reply, now', elapsed)
        /\ UNCHANGED <<tracker, history, routing, providers, env, restVars>>

\* completion, lines 270-286 and 313-322: attempt_with_retries returned
\* Err((error, was_rate_limit)).
after_retries(t) ==
    LET c == call[t]
        c1 == [c EXCEPT !.pending = NoPending, !.last_error = c.pending.error]
    IN  /\ c.pc = "failed"
        /\ tracker' = record_if_rate_limited(tracker, c.pending.was_rate_limit,
                                             c.model_name, now)
        /\ call' = [call EXCEPT ![t] =
                IF c.index = 0 /\ c.fallbacks = <<>>
                THEN [c EXCEPT !.pc = "done", !.pending = NoPending,
                               !.result = Err(c.pending.error)]
                ELSE fallback_loop(c1, c.index + 1)]
        /\ obs' = [obs EXCEPT ![t].recorded =
                IF c.pending.was_rate_limit
                THEN Append(@, [index       |-> c.index,
                                key         |-> c.model_name,
                                at          |-> now,
                                invocations |-> obs[t].invocations,
                                failures    |-> obs[t].failures,
                                last        |-> obs[t].last_observed])
                ELSE @]
        /\ history' = IF c.pending.was_rate_limit
                      THEN Append(history, [key |-> c.model_name, at |-> now])
                      ELSE history
        /\ UNCHANGED <<now, routing, providers, env, restVars>>

\* completion, lines 290-303: the cooldown check of the fallback at index.
check_fallback(t) ==
    LET c == call[t]
        fallback_name == c.fallbacks[c.index]
        limited == is_rate_limited(tracker, fallback_name,
                                   routing.rate_limit_cooldown_secs, now)
    IN  /\ c.pc = "check_fallback"
        /\ call' = [call EXCEPT ![t] =
                IF limited
                THEN fallback_loop(c, c.index + 1)
                ELSE start_retries(c, c.index, fallback_name)]
        /\ obs' = [obs EXCEPT ![t] =
                LET o == observe_check(@, c.index, limited)
                IN  IF call'[t].pc = "invoke"
                    THEN observe_start(o, c.index) ELSE o]
        /\ UNCHANGED <<now, tracker, history, routing, providers, env, restVars>>

Step(t) ==
    \/ completion_begin(t)
    \/ check_primary(t)
    \/ backoff(t)
    \/ attempt_completion(t)
    \/ send(t)
    \/ response_text(t)
    \/ call_antigravity(t)
    \/ antigravity_text(t)
    \/ after_retries(t)
    \/ check_fallback(t)

\* No access-token request and no pure-function call is modelled.
RestIdle == store = <<>> /\ auth = <<>> /\ job = <<>> /\ disk = <<>>

\* The state after construction.  The tracker is empty, or holds the
\* cooldowns earlier calls left behind.  Callers bind the first k identifiers
\* of the configuration (and the bare one), with or without the routing
\* config as withs says, and providers answer with one of replies.  The
\* process environment holds the variables of `environment`, and an await on
\* the network takes one of the times of latencies.
InitTimed(tasks, configs, prior, tables, more, k, withs, replies, environment, latencies) ==
    /\ now = 0
    /\ routing \in configs
    /\ tracker \in IF prior THEN PriorTrackers(routing) ELSE {<<>>}
    /\ history = <<>>
    /\ providers \in tables
    /\ env = [identifiers |-> [t \in tasks |-> Identifiers(routing, k) \cup more],
              with |-> withs, replies |-> replies,
              environment |-> environment, latencies |-> latencies]
    /\ call = [t \in tasks |-> IdleCall]
    /\ obs = [t \in tasks |-> IdleObs]

\* The same when every request is answered at once.
InitEnv(tasks, configs, prior, tables, more, k, withs, replies, environment) ==
    InitTimed(tasks, configs, prior, tables, more, k, withs, replies,
              environment, {0})

\* The same with every provider configured with its own API, the antigravity
\* provider with one of urls as its base URL.
InitWith(tasks, configs, prior, urls, k, withs, replies) ==
    InitEnv(tasks, configs, prior, {DefaultProviders(url) : url \in urls}, {},
            k, withs, replies, OAuthEnvironment)

\* The answers of a run whose retry loops can fail in two retriable ways, of
\* a run over the whole fallback chain, and of a run whose round trips fail
\* without an error status.
MixedReplies == HttpReplies \cup AntigravityReplies

DeepReplies == {Reply200, Reply401, Reply429, Reply404}

CoolingReplies == {Reply200, Reply429, Reply404}

BrokenReplies == {Reply200, Reply201} \cup FailureReplies

\* The answers of the runs whose requests take time: a non-retriable error
\* while a cooldown left behind runs out, and rate limits.
ExpiringReplies == {Reply200, Reply401}

TimedReplies == {Reply200, Reply429}

\* The answers of the runs whose chains name the model itself.
SelfReplies == {Reply200, Reply401, Reply429}

\* Fallback chains of at most one model.
ShortConfigs ==
    {RingConfig(c, bare, "gemini-3-flash", n) :
        c \in CooldownChoices, bare \in BOOLEAN, n \in 0..1}

\* One completion() call, with any routing configuration (chains of the
\* ring, and chains that name the model itself), with or without cooldowns
\* left behind by earlier calls, and any reply to every request, answered at
\* once or after some time.
Init ==
    /\ \/ InitWith({1}, ShortConfigs, TRUE, {""}, 3, BOOLEAN, MixedReplies)
       \/ InitWith({1}, RoutingConfigs({"gemini-3-flash"}, CooldownChoices),
                   TRUE, {""}, 3, BOOLEAN, CoolingReplies)
       \/ InitWith({1}, RoutingConfigs({"gemini-3-flash"}, CooldownChoices),
                   FALSE, {""}, 3, BOOLEAN, DeepReplies)
       \/ InitWith({1}, RoutingConfigs({"gemini-3-flash"}, CooldownChoices),
                   FALSE, {""}, 3, BOOLEAN, BrokenReplies)
       \/ InitTimed({1}, ShortConfigs, TRUE, {DefaultProviders("")}, {}, 3,
                    {TRUE}, ExpiringReplies, OAuthEnvironment, Latencies)
       \/ InitTimed({1}, ShortConfigs, FALSE, {DefaultProviders("")}, {}, 3,
                    {TRUE}, TimedReplies, OAuthEnvironment, Latencies)
       \/ InitWith({1}, SelfConfigs(CooldownChoices), TRUE, {""}, 1, {TRUE},
                   SelfReplies)
    /\ RestIdle

Next == \E t \in DOMAIN call : Step(t)

Spec == Init /\ [][Next]_vars

\* Chains of every length up to MaxFallbackLen, and chains that name the
\* model itself.
LiveConfigs ==
    {RingConfig(c, TRUE, "gemini-3-flash", n) :
        c \in CooldownChoices, n \in 0..MaxFallbackLen}
        \cup SelfConfigs(CooldownChoices)

LiveReplies == {Reply200, Reply429}

\* The same call when every step it starts is finished: the runtime keeps
\* polling the task, every request is answered and every sleep ends.
InitLive ==
    /\ InitWith({1}, LiveConfigs, FALSE, {""}, 1, {TRUE}, LiveReplies)
    /\ RestIdle

SpecLive == InitLive /\ [][Next]_vars /\ WF_vars(Next)

(***************************************************************************)
(* The rate-limit tracker on its own: any sequence of record_rate_limit    *)
(* calls under a clock that never goes back.                               *)
(***************************************************************************)
MaxTrackerClock == 3
MaxRecords == 3

TrackerModels ==
    {<<"anthropic", "claude-sonnet">>, <<"anthropic", "claude-haiku">>,
     <<"claude-haiku">>}

\* LlmManager::record_rate_limit(model_name), called at the current time.
tracker_record(model_name) ==
    /\ Len(history) < MaxRecords
    /\ tracker' = record_rate_limit(tracker, model_name, now)
    /\ history' = Append(history, [key |-> model_name, at |-> now])
    /\ UNCHANGED <<now, routing, providers, env, restVars, call, obs>>

tracker_tick ==
    /\ now < MaxTrackerClock * 1000
    /\ now' = now + 1000
    /\ UNCHANGED <<tracker, history, routing, providers, env, restVars, call, obs>>

InitTracker ==
    /\ InitWith({}, {RingConfig(1, TRUE, "gemini-3-flash", 0)},
                FALSE, {""}, 0, {}, {})
    /\ RestIdle

NextTracker == tracker_tick \/ \E m \in TrackerModels : tracker_record(m)

SpecTracker == InitTracker /\ [][NextTracker]_vars

(***************************************************************************)
(* Two tasks call completion() concurrently on one LlmManager, whose       *)
(* tracker starts empty.  With the routing config requests are answered at *)
(* once and the clock advances with the retry sleeps, which overlap;       *)
(* without it (direct calls) the requests take time, and the awaits of the *)
(* two tasks overlap.                                                      *)
(***************************************************************************)
InitConc ==
    /\ now = 0
    /\ routing \in {RingConfig(c, TRUE, "gemini-3-flash", 1) :
                        c \in CooldownChoices}
    /\ tracker = <<>>
    /\ history = <<>>
    /\ providers = DefaultProviders("")
    /\ \E direct \in BOOLEAN :
          env = [identifiers |-> (1 :> {<<"claude-haiku">>}
                                    @@ 2 :> {routing.ring[1]}),
                 with |-> {~direct}, replies |-> {Reply200, Reply429},
                 environment |-> OAuthEnvironment,
                 latencies |-> IF direct THEN Latencies ELSE {0}]
    /\ call = [t \in {1, 2} |-> IdleCall]
    /\ obs = [t \in {1, 2} |-> IdleObs]
    /\ RestIdle

NextConc == \E t \in DOMAIN call : Step(t)

SpecConc == InitConc /\ [][NextConc]_vars

(***************************************************************************)
(* Direct calls (no routing config) to bindings of the Antigravity         *)
(* provider and others, with every answer the endpoints can give.          *)
(***************************************************************************)
AdvanceModels == {"claude-sonnet-4-5", "claude-opus-4-5", "gemini-3-flash"}

\* Bindings of further providers, and the identifier "antigravity/", whose
\* model name is empty.
DirectIdentifiers ==
    {<<"openai", "gpt-4o">>, <<"zhipu", "glm">>, <<"antigravity", "">>}

InitAg ==
    /\ InitEnv({1},
               {RingConfig(c, TRUE, ag, 0) :
                   c \in CooldownChoices, ag \in AdvanceModels},
               FALSE, ProviderTables(BaseUrls), DirectIdentifiers, 3, {FALSE},
               AdvanceReplies \cup FailureReplies
                   \cup {Reply502Html, Reply201},
               OAuthEnvironment)
    /\ RestIdle

NextAg ==
    \E t \in DOMAIN call :
        \/ completion_begin(t)
        \/ attempt_completion(t)
        \/ send(t)
        \/ response_text(t)
        \/ call_antigravity(t)
        \/ antigravity_text(t)

SpecAg == InitAg /\ [][NextAg]_vars

(***************************************************************************)
(* OAuth credentials (src/src/auth.rs) and the credential store of         *)
(* LlmManager that hands out access tokens.  Times are Unix milliseconds;  *)
(* so is the clock `now`.                                                  *)
(***************************************************************************)
MaxAuthTicks == 2

\* The clock advances in steps of five minutes.
AuthTickSecs == 300

\* chrono::Utc::now().timestamp_millis()
timestamp_millis(t) == t

\* i64 timestamps, scaled to TimeBits bits (two's complement).
TimeBits == 24

MinTime == 0 - Pow2(TimeBits - 1)

MaxTime == Pow2(TimeBits - 1) - 1

wrapping(x) == ((x - MinTime) % Pow2(TimeBits)) + MinTime

\* The body of OAuthCredentials::is_expired and of
\* AntigravityCredentials::is_expired on i64: <<b>> when it returns b, <<>>
\* when the subtraction panics (a build with overflow checks); a build
\* without them wraps.
is_expired_at(expires_at, now_ms, overflow_checks) ==
    LET buffer == 5 * 60 * 1000
        difference == expires_at - buffer
    IN  IF difference >= MinTime THEN <<now_ms >= difference>>
        ELSE IF overflow_checks THEN <<>>
        ELSE <<now_ms >= wrapping(difference)>>

\* OAuthCredentials::is_expired and AntigravityCredentials::is_expired at
\* clock t (milliseconds), for the credentials of the store, whose expiry is far
\* from the ends of the range.
is_expired(creds, t) ==
    is_expired_at(creds.expires_at, timestamp_millis(t), TRUE) = <<TRUE>>

\* A lifetime in seconds whose milliseconds do not fit the timestamps.
LongLife == (MaxTime \div 1000) + 1

\* The access token the token endpoint issues with its n-th answer.
issued_token(n) == "access-" \o ToString(n)

\* The 2xx answers of the token endpoint to the n-th refresh request whose
\* body is a JSON object: a new access token, a lifetime in seconds (absent
\* in some Antigravity answers), a rotated refresh token and, for
\* Antigravity, a token type and a scope.  None stands for a field that
\* as_str() does not find as a string.
RefreshAnswers(kind, n) ==
    {[sent |-> TRUE, status |-> s, body |-> "object",
      access_token |-> issued_token(n),
      refresh_token |-> r, expires_in |-> e, token_type |-> tt,
      scope |-> sc] :
        s \in {"200", "201"},
        r \in IF kind = "anthropic" THEN {"refresh-" \o ToString(n)}
              ELSE {"refresh-" \o ToString(n), None},
        e \in IF kind = "anthropic" THEN {<<300>>, <<3600>>, <<LongLife>>}
              ELSE {<<300>>, <<>>, <<LongLife>>},
        tt \in IF kind = "anthropic" THEN {None} ELSE {None, "bearer"},
        sc \in IF kind = "anthropic" THEN {None} ELSE {None, "openid"}}

RefreshFailure ==
    [sent |-> TRUE, status |-> "400", body |-> "object",
     access_token |-> None, refresh_token |-> None,
     expires_in |-> <<>>, token_type |-> None, scope |-> None]

\* The ways a refresh round trip fails: the request is not sent, the status
\* is not 2xx, the body cannot be read, the body is not JSON, the JSON object
\* has no access_token.
RefreshFailures ==
    {RefreshFailure,
     [RefreshFailure EXCEPT !.sent = FALSE, !.status = None],
     [RefreshFailure EXCEPT !.status = "200", !.body = "unreadable"],
     [RefreshFailure EXCEPT !.status = "200", !.body = "malformed"],
     [RefreshFailure EXCEPT !.status = "200", !.refresh_token = "refresh-x",
                            !.expires_in = <<300>>]}

\* The faulty variant: a failed refresh drops the access token.
refresh_failed_wiping(creds, message) ==
    [ok |-> FALSE, creds |-> [creds EXCEPT !.access_token = None],
     error |-> message]

\* refresh(&self) returns Err: self is borrowed immutably and stays as it is.
refresh_failed(creds, message) ==
    [ok |-> FALSE, creds |-> creds, error |-> message]

\* The expression now + expires_in * 1000 on i64 (auth.rs:104 and 179):
\* <<expires_at>> when it has a value, <<>> when the multiplication or the
\* addition panics (a build with overflow checks); a build without them
\* wraps.
expires_at_after(t, expires_in, overflow_checks) ==
    LET product == expires_in * 1000
        sum == timestamp_millis(t) + wrapping(product)
    IN  IF product \in MinTime..MaxTime /\ sum \in MinTime..MaxTime
        THEN <<sum>>
        ELSE IF overflow_checks THEN <<>>
        ELSE <<wrapping(sum)>>

\* The message of the panic that ends refresh when the arithmetic
\* overflows: the caller gets no value and the credentials stay as they are.
OverflowPanic(t, expires_in) ==
    IF expires_in * 1000 \in MinTime..MaxTime
    THEN <<"attempt", "to", "add", "with", "overflow">>
    ELSE <<"attempt", "to", "multiply", "with", "overflow">>

\* OAuthCredentials::refresh, lines 79-105: the result for a reply that
\* arrives at time t.
anthropic_refreshed(creds, reply, t, overflow_checks) ==
    IF ~reply.sent
    THEN refresh_failed(creds, <<"failed", "to", "send", "refresh", "request">>)
    ELSE IF reply.body = "unreadable"
    THEN refresh_failed(creds, <<"failed", "to", "read", "refresh", "response">>)
    ELSE IF ~status_is_success(reply.status)
    THEN refresh_failed(creds, <<"token", "refresh", "failed">>)
    ELSE IF \/ reply.body # "object"
            \/ None \in {reply.access_token, reply.refresh_token}
            \/ reply.expires_in = <<>>
    THEN refresh_failed(creds, <<"failed", "to", "parse", "refresh", "response">>)
    ELSE LET expires_at ==
                 expires_at_after(t, reply.expires_in[1], overflow_checks)
         IN  IF expires_at = <<>>
             THEN refresh_failed(creds, OverflowPanic(t, reply.expires_in[1]))
             ELSE [ok |-> TRUE,
                   creds |-> [creds EXCEPT
                                 !.access_token = reply.access_token,
                                 !.refresh_token = reply.refresh_token,
                                 !.expires_at = expires_at[1]],
                   error |-> <<>>]

\* The faulty variant: the fields of the reply are taken as they come.
antigravity_refreshed_overwriting(creds, reply, t, overflow_checks) ==
    IF ~reply.sent \/ ~status_is_success(reply.status)
       \/ reply.body # "object"
       \/ reply.access_token = None
    THEN refresh_failed(creds, <<"antigravity", "token", "refresh", "failed">>)
    ELSE [ok |-> TRUE,
          creds |-> [creds EXCEPT
                        !.access_token = reply.access_token,
                        !.expires_at = timestamp_millis(t) + 3600 * 1000,
                        !.refresh_token = reply.refresh_token,
                        !.token_type = reply.token_type,
                        !.scope = reply.scope],
          error |-> <<>>]

\* AntigravityCredentials::refresh, lines 155-200.
antigravity_refreshed(creds, reply, t, overflow_checks) ==
    LET or_else(value, kept) == IF value = None THEN kept ELSE value
        expires_in_secs == IF reply.expires_in = <<>> THEN 3600
                           ELSE reply.expires_in[1]
        expires_at == expires_at_after(t, expires_in_secs, overflow_checks)
    IN  IF ~reply.sent
        THEN refresh_failed(creds, <<"failed", "to", "send", "antigravity",
                                     "refresh", "request">>)
        ELSE IF reply.body = "unreadable"
        THEN refresh_failed(creds, <<"failed", "to", "read", "antigravity",
                                     "refresh", "response">>)
        ELSE IF ~status_is_success(reply.status)
        THEN refresh_failed(creds, <<"antigravity", "token", "refresh",
                                     "failed">>)
        ELSE IF reply.body # "object"
        THEN refresh_failed(creds, <<"failed", "to", "parse", "antigravity",
                                     "refresh", "response">>)
        ELSE IF reply.access_token = None
        THEN refresh_failed(creds, <<"antigravity", "refresh", "response",
                                     "missing", "access_token">>)
        ELSE IF expires_at = <<>>
        THEN refresh_failed(creds, OverflowPanic(t, expires_in_secs))
        ELSE [ok |-> TRUE,
              creds |-> [creds EXCEPT
                            !.access_token = reply.access_token,
                            !.expires_at = expires_at[1],
                            !.refresh_token =
                                or_else(reply.refresh_token, @),
                            !.token_type = or_else(reply.token_type, @),
                            !.scope = or_else(reply.scope, @)],
              error |-> <<>>]

refreshed(kind, creds, reply, t, overflow_checks) ==
    IF kind = "anthropic"
    THEN anthropic_refreshed(creds, reply, t, overflow_checks)
    ELSE antigravity_refreshed(creds, reply, t, overflow_checks)

\* antigravity_oauth_client_id and antigravity_oauth_client_secret, lines
\* 36-52: the error when the variable cannot be read.
missing_variable(name) ==
    <<"missing", name, "(required", "for", "Antigravity", "OAuth", "login)">>

\* AntigravityCredentials::refresh, lines 138-143: the error the call returns
\* before any request is sent, <<>> when it sends the request: the refresh
\* token is looked at first, then the client id, then the client secret.
\* OAuthCredentials::refresh has no such guard.
refresh_guard(kind, creds, environment) ==
    IF kind = "anthropic" THEN <<>>
    ELSE IF creds.refresh_token = None
    THEN <<"missing", "refresh_token", "in", "antigravity", "credentials">>
    ELSE IF ~env_var_is_ok(environment, ANTIGRAVITY_OAUTH_CLIENT_ID_ENV)
    THEN missing_variable(ANTIGRAVITY_OAUTH_CLIENT_ID_ENV)
    ELSE IF ~env_var_is_ok(environment, ANTIGRAVITY_OAUTH_CLIENT_SECRET_ENV)
    THEN missing_variable(ANTIGRAVITY_OAUTH_CLIENT_SECRET_ENV)
    ELSE <<>>

can_send_refresh(kind, creds, environment) ==
    refresh_guard(kind, creds, environment) = <<>>

Kinds == {"anthropic", "antigravity"}

\* The credentials the login flows stored: expired at time 0, or valid for
\* the first ten minutes.
StoredCredentials(kind) ==
    {[access_token |-> "access-0", refresh_token |-> r, expires_at |-> e,
      token_type |-> "Bearer", scope |-> "cloud-platform",
      project_id |-> IF kind = "anthropic" THEN None ELSE "rising-fact-p41fc"] :
        r \in IF kind = "anthropic" THEN {"refresh-0"} ELSE {"refresh-0", None},
        e \in {300000, 900000}}

\* The files of the instance directory that hold the credentials.
credentials_path(kind) ==
    IF kind = "anthropic" THEN "anthropic_oauth.json"
    ELSE "antigravity_oauth.json"

\* The fields serde writes for each credential struct, in declaration order.
credential_fields(kind) ==
    IF kind = "anthropic"
    THEN <<"access_token", "refresh_token", "expires_at">>
    ELSE <<"access_token", "refresh_token", "expires_at", "token_type",
           "scope", "project_id">>

\* The type of each field of OAuthCredentials (lines 55-60) and of
\* AntigravityCredentials (lines 119-127).
field_type(kind, field) ==
    CASE field = "expires_at" -> "i64"
      [] field \in {"access_token", "project_id"} -> "String"
      [] field = "refresh_token" ->
            IF kind = "anthropic" THEN "String" ELSE "Option<String>"
      [] OTHER -> "Option<String>"

\* serde_json::to_string_pretty: an opening line, one line per field, a
\* closing line.  A line is <<name, value>> and a value is <<"str", s>>,
\* <<"num", n>> or <<"null">>.
to_string_pretty(kind, credentials) ==
    LET fields == credential_fields(kind)
        value(field) ==
            IF field_type(kind, field) = "i64"
            THEN <<"num", credentials[field]>>
            ELSE IF credentials[field] = None THEN <<"null">>
            ELSE <<"str", credentials[field]>>
    IN  <<(<<"{">>)>>
        \o [i \in 1..Len(fields) |-> <<fields[i], value(fields[i])>>]
        \o <<(<<"}">>)>>

\* A file an earlier save left behind: whole, and owner-only.
SavedFile(kind, credentials) ==
    [exists |-> TRUE, data |-> to_string_pretty(kind, credentials),
     mode |-> "0600"]

IdleAuth ==
    [pc       |-> "idle",     \* idle, acquire, refreshing, done
     kind     |-> None,
     waited   |-> FALSE,      \* the lock was held when the request came in
     found    |-> None,       \* the access token found in the cache
     expired  |-> FALSE,      \* whether that credential was expired
     requests |-> 0,          \* refresh requests this task sent
     ok       |-> FALSE,
     token    |-> None,
     error    |-> <<>>]       \* the error a failed refresh returned

\* Faulty variant: the lock is handed out while another task holds it.
lock_free_always(holder) == TRUE

\* The store's mutex of one credential kind can be taken.
lock_free(holder) == holder = 0

\* A task asks the store for an access token of one kind.
get_token(t, kind) ==
    /\ auth[t].pc = "idle"
    /\ auth' = [auth EXCEPT ![t] =
            [IdleAuth EXCEPT !.pc = "acquire", !.kind = kind,
                             !.waited = ~lock_free(store[kind].holder)]]
    /\ UNCHANGED <<now, tracker, history, routing, providers, env, call, obs,
                   store, job, disk>>

\* The task gets the lock and reads the cache: a valid credential is returned
\* at once; for an expired one refresh() is called, which sends its request.
lock_acquired(t) ==
    LET a == auth[t]
        kind == a.kind
        creds == store[kind].creds
        a1 == [a EXCEPT !.found = creds.access_token,
                        !.expired = is_expired(creds, now)]
    IN  /\ a.pc = "acquire"
        /\ lock_free(store[kind].holder)
        /\ IF ~is_expired(creds, now)
           THEN /\ auth' = [auth EXCEPT ![t] =
                        [a1 EXCEPT !.pc = "done", !.ok = TRUE,
                                   !.token = creds.access_token]]
                /\ UNCHANGED store
           ELSE IF can_send_refresh(kind, creds, env.environment)
           THEN /\ auth' = [auth EXCEPT ![t] =
                        [a1 EXCEPT !.pc = "refreshing", !.requests = @ + 1]]
                /\ store' = [store EXCEPT ![kind].holder = t,
                                          ![kind].issued = @ + 1]
           ELSE /\ auth' = [auth EXCEPT ![t] =
                        [a1 EXCEPT !.pc = "done",
                                   !.error = refresh_guard(kind, creds,
                                                           env.environment)]]
                /\ UNCHANGED store
        /\ UNCHANGED <<now, tracker, history, routing, providers, env, call, obs,
                       job, disk>>

\* The latest value each retained field was given by a reply.
carry(carried, reply) ==
    [f \in DOMAIN carried |-> IF reply[f] = None THEN carried[f] ELSE reply[f]]

\* The token endpoint answers the refresh request of task t, or the request
\* fails: on success the new credentials replace the cached ones and are
\* saved to the credentials file; a failure leaves both as they are.  The
\* lock is released.
refresh_reply(t) ==
    LET a == auth[t]
        kind == a.kind
    IN  /\ a.pc = "refreshing"
        /\ \E reply \in RefreshAnswers(kind, store[kind].issued)
                            \cup RefreshFailures,
              overflow_checks \in BOOLEAN :
             LET r == refreshed(kind, store[kind].creds, reply, now,
                                overflow_checks)
             IN  /\ store' = [store EXCEPT
                        ![kind].creds = r.creds,
                        ![kind].holder = 0,
                        ![kind].refreshes = IF r.ok THEN @ + 1 ELSE @,
                        ![kind].carried = IF r.ok THEN carry(@, reply) ELSE @]
                 /\ disk' = IF r.ok
                            THEN [disk EXCEPT ![credentials_path(kind)] =
                                     SavedFile(kind, r.creds)]
                            ELSE disk
                 /\ auth' = [auth EXCEPT ![t] =
                        [a EXCEPT !.pc = "done", !.ok = r.ok,
                                  !.token = IF r.ok THEN r.creds.access_token
                                            ELSE None,
                                  !.error = r.error]]
        /\ UNCHANGED <<now, tracker, history, routing, providers, env, call, obs,
                       job>>

\* Five minutes pass.
auth_tick ==
    /\ now < MaxAuthTicks * AuthTickSecs * 1000
    /\ now' = now + AuthTickSecs * 1000
    /\ UNCHANGED <<tracker, history, routing, providers, env, call, obs,
                   store, auth, job, disk>>

InitAuth ==
    /\ \E environment \in Environments :
          InitEnv({}, {RingConfig(1, TRUE, "gemini-3-flash", 0)},
                  FALSE, {DefaultProviders("")}, {}, 0, {}, {}, environment)
    /\ \E stored \in [Kinds -> UNION {StoredCredentials(k) : k \in Kinds}] :
          /\ \A k \in Kinds : stored[k] \in StoredCredentials(k)
          /\ store = [k \in Kinds |->
                [creds |-> stored[k], holder |-> 0, issued |-> 0,
                 original |-> stored[k],    \* ghost: what the login stored
                 refreshes |-> 0,           \* ghost: successful refreshes
                 carried |->                \* ghost: see carry
                    [f \in {"refresh_token", "token_type", "scope"} |->
                        stored[k][f]]]]
          /\ disk = [path \in {credentials_path(k) : k \in Kinds} |->
                        LET k == CHOOSE k \in Kinds : credentials_path(k) = path
                        IN  SavedFile(k, stored[k])]
    /\ auth = [t \in {1, 2} |-> IdleAuth]
    /\ job = <<>>

NextAuth ==
    \/ auth_tick
    \/ \E t \in DOMAIN auth :
          \/ \E kind \in Kinds : get_token(t, kind)
          \/ lock_acquired(t)
          \/ refresh_reply(t)

SpecAuth == InitAuth /\ [][NextAuth]_vars

(***************************************************************************)
(* Persistence of credentials (auth.rs): one call of save_credentials or   *)
(* save_antigravity_credentials, step by step, on the file at the final    *)
(* path.  std::fs::write opens the path with create + truncate and then    *)
(* writes the data; set_permissions runs after the write returned.  A      *)
(* crash can stop the call between any two steps, and load_credentials can *)
(* read the file at any time.  File data is a sequence of lines.           *)
(***************************************************************************)
\* serde_json::from_str into the derived Deserialize of the credential
\* structs: the text must be one whole JSON object; its members are taken by
\* name in any order, members the struct does not have are ignored, a field
\* given twice is an error, a field that is absent is None when its type is
\* an Option and an error otherwise, and null is None for an Option only.
credentials_from_str(kind, data) ==
    LET fields == credential_fields(kind)
        names == {fields[i] : i \in 1..Len(fields)}
        n == Len(data)
        members == 2..(n - 1)
        at(field) == {i \in members : data[i][1] = field}
        value(field) == data[CHOOSE i \in at(field) : TRUE][2]
        accepts(field) ==
            LET type == field_type(kind, field)
            IN  IF at(field) = {} THEN type = "Option<String>"
                ELSE /\ Cardinality(at(field)) = 1
                     /\ CASE type = "i64" -> value(field)[1] = "num"
                          [] type = "String" -> value(field)[1] = "str"
                          [] OTHER -> value(field)[1] \in {"str", "null"}
        taken(field) ==
            IF at(field) = {} \/ value(field)[1] = "null" THEN None
            ELSE value(field)[2]
    IN  IF /\ n >= 2
           /\ data[1] = <<"{">>
           /\ data[n] = <<"}">>
           /\ \A i \in members : Len(data[i]) = 2
           /\ \A field \in names : accepts(field)
        THEN <<"Ok", <<[field \in names |-> taken(field)]>>>>
        ELSE <<"Err", <<"failed", "to", "parse">>>>

NoFile == [exists |-> FALSE, data |-> <<>>, mode |-> "none"]

\* The process umask decides the permission bits of a file that open()
\* creates with mode 0666.
Umasks == {"022", "077"}

created_mode(umask) == IF umask = "077" THEN "0600" ELSE "0644"

\* load_credentials / load_antigravity_credentials.
load_credentials(kind, file) ==
    IF ~file.exists THEN <<"Ok", <<>>>>
    ELSE credentials_from_str(kind, file.data)

\* One call of save_credentials in progress.
SaveJob(kind, credentials, umask, before) ==
    [op     |-> IF kind = "anthropic" THEN "save_credentials"
                ELSE "save_antigravity_credentials",
     input  |-> [kind |-> kind, credentials |-> credentials, umask |-> umask],
     done   |-> FALSE,
     output |-> <<>>,
     pc     |-> "create",   \* create, write_all, set_permissions, returned,
                            \* crashed
     before |-> before,     \* ghost: the file when the call began
     reads  |-> 0,          \* ghost: loads that ran during the call
     seen   |-> <<>>]       \* ghost: what the last load returned

Saving == job # <<>> /\ job.op \in {"save_credentials",
                                     "save_antigravity_credentials"}

save_path == credentials_path(job.input.kind)

save_data == to_string_pretty(job.input.kind, job.input.credentials)

\* std::fs::write, first half: File::create opens the final path with
\* create + truncate.  An existing file keeps its permission bits.
fs_create ==
    /\ Saving /\ job.pc = "create"
    /\ disk' = [disk EXCEPT ![save_path] =
            [exists |-> TRUE, data |-> <<>>,
             mode |-> IF @.exists THEN @.mode
                      ELSE created_mode(job.input.umask)]]
    /\ job' = [job EXCEPT !.pc = "write_all"]
    /\ UNCHANGED <<engineVars, store, auth>>

\* std::fs::write, second half: write_all loops over write(), each of which
\* appends some of what is left.
fs_write_all ==
    /\ Saving /\ job.pc = "write_all"
    /\ \E n \in 1..(Len(save_data) - Len(disk[save_path].data)) :
          LET written == Len(disk[save_path].data) + n
          IN  /\ disk' = [disk EXCEPT ![save_path].data =
                              SubSeq(save_data, 1, written)]
              /\ job' = [job EXCEPT !.pc = IF written = Len(save_data)
                                           THEN "set_permissions" ELSE @]
    /\ UNCHANGED <<engineVars, store, auth>>

\* set_permissions(&path, 0o600), then Ok(()).
fs_set_permissions ==
    /\ Saving /\ job.pc = "set_permissions"
    /\ disk' = [disk EXCEPT ![save_path].mode = "0600"]
    /\ job' = [job EXCEPT !.pc = "returned", !.done = TRUE,
                          !.output = <<"Ok">>]
    /\ UNCHANGED <<engineVars, store, auth>>

\* The process stops between two steps of the call.
save_crash ==
    /\ Saving /\ job.pc \in {"create", "write_all", "set_permissions"}
    /\ job' = [job EXCEPT !.pc = "crashed"]
    /\ UNCHANGED <<engineVars, store, auth, disk>>

MaxReads == 1

\* Another reader loads the file while the call is in progress or after it
\* stopped.
concurrent_load ==
    /\ Saving /\ job.reads < MaxReads
    /\ job' = [job EXCEPT !.reads = @ + 1,
                          !.seen = load_credentials(job.input.kind,
                                                    disk[save_path])]
    /\ UNCHANGED <<engineVars, store, auth, disk>>

\* Files written by hand or by another version: the fields in another order,
\* a member the struct does not have, the optional fields left out, a field
\* given twice, a required field left out.
EditedFiles(kind, credentials) ==
    LET data == to_string_pretty(kind, credentials)
        n == Len(data)
        optional == {i \in 2..(n - 1) :
                        field_type(kind, data[i][1]) = "Option<String>"}
        keep(i) == i \notin optional
    IN  {[exists |-> TRUE, data |-> d, mode |-> "0600"] :
            d \in {<<data[1]>> \o [i \in 1..(n - 2) |-> data[n - i]]
                        \o <<data[n]>>,
                   SubSeq(data, 1, n - 1) \o << <<"comment", <<"str", "x">>>> >>
                        \o <<data[n]>>,
                   <<data[1]>>
                        \o SelectSeq([i \in 1..(n - 2) |->
                                        IF keep(i + 1) THEN data[i + 1]
                                        ELSE <<"{">>],
                                     LAMBDA line : Len(line) = 2)
                        \o <<data[n]>>,
                   SubSeq(data, 1, n - 1) \o <<data[2]>> \o <<data[n]>>,
                   <<data[1]>> \o SubSeq(data, 3, n)}}

\* What the login flows and the refresh paths hand to the save functions.
SavedCredentials(kind) ==
    {[c EXCEPT !.access_token = a] :
        c \in StoredCredentials(kind), a \in {"access-0", "access-1"}}

InitSave ==
    /\ InitWith({}, {RingConfig(1, TRUE, "gemini-3-flash", 0)},
                FALSE, {""}, 0, {}, {})
    /\ store = <<>>
    /\ auth = <<>>
    /\ \E kind \in Kinds, umask \in Umasks :
       \E new \in SavedCredentials(kind) :
       \E before \in {NoFile}
               \cup {SavedFile(kind, old) : old \in SavedCredentials(kind) \ {new}}
               \cup EditedFiles(kind, new) :
          /\ disk = [path \in {credentials_path(k) : k \in Kinds} |->
                        IF path = credentials_path(kind) THEN before
                        ELSE NoFile]
          /\ job = SaveJob(kind, new, umask, before)

NextSave ==
    \/ fs_create
    \/ fs_write_all
    \/ fs_set_permissions
    \/ save_crash
    \/ concurrent_load

SpecSave == InitSave /\ [][NextSave]_vars

(***************************************************************************)
(* Single calls of the pure functions of model.rs: `job` holds the         *)
(* function called, its input and, once the call returned, its result.     *)
(***************************************************************************)
MaxSegments == 3

Segments == {"", "m", "openrouter", "anthropic", "openai"}

\* Every identifier string with at most MaxSegments - 1 occurrences of "/".
IdentifierStrings == UNION {[1..n -> Segments] : n \in 1..MaxSegments}

NewJob(op, input) == [op |-> op, input |-> input, done |-> FALSE, output |-> <<>>]

Finish(output) == job' = [job EXCEPT !.done = TRUE, !.output = output]

(***************************************************************************)
(* Single calls of is_expired (auth.rs) on one credential at two times.    *)
(***************************************************************************)
\* Expiry timestamps: the ends of the range, the buffer's distance from
\* them, and values around the times asked.
ExpiryTimes ==
    {MinTime, MinTime + 299999, MinTime + 300000, -1, 0, 1, 299999, 300000,
     300001, 600000, 900000, MaxTime - 300000, MaxTime}

\* Readings of the clock.
ClockTimes == {0, 1, 300000, 600000, 900000, 1200000}

apply_is_expired ==
    /\ job.op = "is_expired" /\ ~job.done
    /\ Finish([at_now   |-> is_expired_at(job.input.expires_at, job.input.now,
                                          job.input.overflow_checks),
               at_later |-> is_expired_at(job.input.expires_at,
                                          job.input.later,
                                          job.input.overflow_checks)])
    /\ UNCHANGED <<engineVars, store, auth, disk>>

InitExpiry ==
    /\ InitWith({}, {RingConfig(1, TRUE, "gemini-3-flash", 0)},
                FALSE, {""}, 0, {}, {})
    /\ store = <<>>
    /\ auth = <<>>
    /\ disk = <<>>
    /\ \E kind \in Kinds, expires_at \in ExpiryTimes, overflow_checks \in BOOLEAN :
       \E t \in ClockTimes, later \in ClockTimes :
          /\ later >= t
          /\ job = NewJob("is_expired",
                          [kind |-> kind, expires_at |-> expires_at,
                           now |-> t, later |-> later,
                           overflow_checks |-> overflow_checks])

NextExpiry == apply_is_expired

SpecExpiry == InitExpiry /\ [][NextExpiry]_vars

(***************************************************************************)
(* Single calls of the response parsers.                                   *)
(***************************************************************************)
\* The token counts a provider reports: absent, or any u64.
Usages ==
    {[input_tokens |-> i, output_tokens |-> o] :
        i, o \in {<<>>, <<0>>, <<1>>, <<MaxWord>>}}

AnthropicBodies ==
    {[content |-> c, stop_reason |-> r, usage |-> u] :
        c \in {<<>>, << <<>> >>, << << <<"thinking">> >> >>,
               << << <<"text", "">> >> >>,
               << << <<"text", "hi">>,
                     <<"tool_use", "toolu_1", " read ", EmptyObject>> >> >>},
        r \in {"end_turn", "tool_use"},
        u \in Usages}

apply_parse_anthropic_response ==
    /\ job.op = "parse_anthropic_response" /\ ~job.done
    /\ Finish(parse_anthropic_response(job.input.body, job.input.overflow_checks))
    /\ UNCHANGED <<engineVars, store, auth, disk>>

\* JSON values a tool call's arguments can be.
JsonValues ==
    {<<"null">>, <<"bool", TRUE>>, <<"num", 1>>, <<"str", <<"a">>>>,
     <<"arr", <<>>>>, <<"arr", <<<<"num", 2>>, <<"str", <<"">>>>>>>>,
     EmptyObject, <<"obj", <<<<"a", <<"num", 1>>>>>>>>,
     <<"obj", <<<<"a", <<"obj", <<<<"b", <<"bool", FALSE>>>>>>>>>>,
                <<"b", <<"arr", <<<<"null">>>>>>>>>>>>}

OpenAiBodies ==
    {[message |-> [content |-> c, reasoning_content |-> r, tool_calls |-> tc],
      usage |-> u] :
        c \in {<<>>, <<"">>, <<"hi">>},
        r \in {<<>>, << <<"str", "">> >>, << <<"str", "why">> >>,
               << <<"arr", <<"why">>>> >>},
        tc \in {<<>>, << <<>> >>,
                << << <<"call_1", "bash ", <<"str", <<"{", "}">>>>>>,
                      <<"call_2", "read", <<"str", <<"{", "\"a\"", "}">>>>>> >> >>,
                << << <<"call_3", "read",
                        <<"str", <<"{", "\"b\"", ":", "true", ",",
                                   "\"a\"", ":", "null", ",",
                                   "\"b\"", ":", "false", "}">>>>>> >> >>},
        u \in Usages}

ResponsesBodies ==
    {[output |-> o, usage |-> u] :
        o \in {<<>>, << <<>> >>, << << <<"reasoning">> >> >>,
               << << <<"message", << <<"output_text", "">> >>>> >> >>,
               << << <<"message", << <<"output_text", "hi">>,
                                     <<"refusal", "no">> >>>>,
                     <<"function_call", <<>>, <<"fc_1">>, "read",
                       <<"obj", <<>>>>>> >> >>},
        u \in Usages}

AntigravityEvents ==
    {[i \in 1..Len(ps) |-> [parts |-> ps[i], usage |-> u[i]]] :
        ps \in {<< <<>> >>,
                << <<[text |-> <<"">>, functionCall |-> <<>>]>> >>,
                << <<[text |-> <<"hi">>, functionCall |-> <<>>]>>,
                   <<[text |-> <<"hi">>, functionCall |-> <<>>],
                     [text |-> <<>>,
                      functionCall |-> << <<"read", <<>>>> >>]>> >>},
        u \in [1..2 -> Usages]}

apply_parse_openai_response ==
    /\ job.op = "parse_openai_response" /\ ~job.done
    /\ Finish(parse_openai_response(job.input.body, "openai",
                                    job.input.overflow_checks))
    /\ UNCHANGED <<engineVars, store, auth, disk>>

apply_parse_openai_responses_response ==
    /\ job.op = "parse_openai_responses_response" /\ ~job.done
    /\ Finish(parse_openai_responses_response(job.input.body,
                                              job.input.overflow_checks))
    /\ UNCHANGED <<engineVars, store, auth, disk>>

apply_parse_antigravity_response ==
    /\ job.op = "parse_antigravity_response" /\ ~job.done
    /\ Finish(parse_antigravity_response(job.input.body,
                                         job.input.overflow_checks))
    /\ UNCHANGED <<engineVars, store, auth, disk>>

\* The arguments of an OpenAI tool call, decoded from both forms a provider
\* sends the value in: its JSON text in a string, and the value itself.
apply_openai_arguments ==
    /\ job.op = "openai_arguments" /\ ~job.done
    /\ Finish([from_string |->
                    openai_arguments(<<"str", json_to_string(job.input)>>),
               from_parsed |-> openai_arguments(job.input)])
    /\ UNCHANGED <<engineVars, store, auth, disk>>

(***************************************************************************)
(* Tool names on the Anthropic OAuth path.  The request builder and the    *)
(* name mapping of llm::anthropic are modelled from the specification:     *)
(* a name is sent in its Claude-Code form (my_read as My_Read) and mapped  *)
(* back by looking it up among the original tools of the request.          *)
(***************************************************************************)
OriginalNames == {"my_read", "My_Read", "my_bash"}

\* str::to_lowercase on the tool names used here.
to_lowercase(name) ==
    CASE name = "My_Read" -> "my_read"
      [] name = "My_Bash" -> "my_bash"
      [] OTHER -> name

\* llm::anthropic::to_claude_code_name: the form sent to Anthropic.
to_claude_code_name(name) ==
    CASE to_lowercase(name) = "my_read" -> "My_Read"
      [] to_lowercase(name) = "my_bash" -> "My_Bash"
      [] OTHER -> name

\* llm::anthropic::from_claude_code_name: the first original tool whose name
\* equals the given one without regard to case, else the name as it is.
from_claude_code_name(name, original_tools) ==
    LET hits == {i \in 1..Len(original_tools) :
                    to_lowercase(original_tools[i][1]) = to_lowercase(name)}
    IN  IF hits = {} THEN name
        ELSE original_tools[CHOOSE i \in hits : \A k \in hits : i <= k][1]

reverse_map_tool_names(choice, original_tools) ==
    [i \in 1..Len(choice) |->
        IF choice[i][1] = "tool_call"
        THEN <<"tool_call", choice[i][2],
               from_claude_code_name(choice[i][3], original_tools), choice[i][4]>>
        ELSE choice[i]]

\* call_anthropic, lines 486-489.
reverse_map_if_oauth(choice, is_oauth, original_tools) ==
    IF is_oauth /\ original_tools # <<>>
    THEN reverse_map_tool_names(choice, original_tools)
    ELSE choice

\* The requests' tool lists, (name, description) pairs with distinct names.
OriginalTools ==
    {tools \in UNION {[1..n -> OriginalNames \X {"reads", "runs"}] : n \in 0..2} :
        \A i, k \in 1..Len(tools) : i # k => tools[i][1] # tools[k][1]}

\* The parsed response to a request with the given tools: a text, then one
\* tool call for each tool of origins, under the name the request carried.
response_choice(original_tools, origins, is_oauth) ==
    <<Text("hi")>> \o
    [i \in 1..Len(origins) |->
        make_tool_call("toolu_" \o ToString(i),
                       IF is_oauth
                       THEN to_claude_code_name(original_tools[origins[i]][1])
                       ELSE original_tools[origins[i]][1],
                       <<"obj", <<<<"a", <<"num", i>>>>>>>>)]

apply_reverse_map_tool_names ==
    /\ job.op = "reverse_map_tool_names" /\ ~job.done
    /\ Finish(reverse_map_if_oauth(job.input.choice, job.input.is_oauth,
                                   job.input.original_tools))
    /\ UNCHANGED <<engineVars, store, auth, disk>>

\* SpacebotModel::make(client, model)
apply_make ==
    /\ job.op = "make" /\ ~job.done
    /\ Finish(make(job.input))
    /\ UNCHANGED <<engineVars, store, auth, disk>>

InitCodec ==
    /\ InitWith({}, {RingConfig(1, TRUE, "gemini-3-flash", 0)},
                FALSE, {""}, 0, {}, {})
    /\ store = <<>>
    /\ auth = <<>>
    /\ disk = <<>>
    /\ \/ \E full_name \in IdentifierStrings : job = NewJob("make", full_name)
       \/ \E body \in AnthropicBodies, overflow_checks \in BOOLEAN :
             job = NewJob("parse_anthropic_response",
                          [body |-> body, overflow_checks |-> overflow_checks])
       \/ \E body \in OpenAiBodies, overflow_checks \in BOOLEAN :
             job = NewJob("parse_openai_response",
                          [body |-> body, overflow_checks |-> overflow_checks])
       \/ \E body \in ResponsesBodies, overflow_checks \in BOOLEAN :
             job = NewJob("parse_openai_responses_response",
                          [body |-> body, overflow_checks |-> overflow_checks])
       \/ \E body \in AntigravityEvents, overflow_checks \in BOOLEAN :
             job = NewJob("parse_antigravity_response",
                          [body |-> body, overflow_checks |-> overflow_checks])
       \/ \E v \in JsonValues :
             job = NewJob("openai_arguments", v)
       \/ \E original_tools \in OriginalTools, is_oauth \in BOOLEAN :
             \E origins \in UNION {[1..n -> 1..Len(original_tools)] : n \in 0..2} :
                job = NewJob("reverse_map_tool_names",
                             [original_tools |-> original_tools,
                              origins |-> origins,
                              is_oauth |-> is_oauth,
                              choice |-> response_choice(original_tools, origins,
                                                         is_oauth)])

NextCodec ==
    \/ apply_make
    \/ apply_parse_anthropic_response
    \/ apply_parse_openai_response
    \/ apply_parse_openai_responses_response
    \/ apply_parse_antigravity_response
    \/ apply_openai_arguments
    \/ apply_reverse_map_tool_names

SpecCodec == InitCodec /\ [][NextCodec]_vars

(***************************************************************************)
(* Conversion of the neutral conversation to a provider's messages.  A     *)
(* message is [role, content]; a part of its content is a tuple that       *)
(* starts with its kind: <<"text", text>>,                                 *)
(* <<"image", kind, data, media_type>>, <<"tool_result", id, contents>>,   *)
(* <<"document">> for a user;                                              *)
(* <<"text", text>>, <<"tool_call", id, name, arguments>>,                 *)
(* <<"reasoning", lines>> for the assistant.                               *)
(***************************************************************************)
RECURSIVE join_lines(_)
\* [String]::join("\n")
join_lines(lines) ==
    IF lines = <<>> THEN ""
    ELSE IF Len(lines) = 1 THEN lines[1]
    ELSE lines[1] \o "\n" \o join_lines(Tail(lines))

\* tool_result_content_to_string: the text items, joined by newlines.
tool_result_content_to_string(contents) ==
    LET RECURSIVE texts(_)
        texts(items) ==
            IF items = <<>> THEN <<>>
            ELSE (IF Head(items)[1] = "text" THEN <<Head(items)[2]>> ELSE <<>>)
                 \o texts(Tail(items))
    IN  join_lines(texts(contents))

\* rig's ImageMediaType::to_mime_type.
to_mime_type(media_type) ==
    CASE media_type = "JPEG" -> "image/jpeg"
      [] media_type = "PNG" -> "image/png"
      [] media_type = "GIF" -> "image/gif"
      [] media_type = "WEBP" -> "image/webp"
      [] media_type = "HEIC" -> "image/heic"
      [] media_type = "HEIF" -> "image/heif"
      [] media_type = "SVG" -> "image/svg+xml"

\* convert_image_openai: Some(part) for base64 data and for a URL.  The
\* data URL names the image's media type, "image/jpeg" when it has none.
convert_image_openai(image) ==
    LET media_type ==
            IF image[4] = None THEN "image/jpeg" ELSE to_mime_type(image[4])
    IN  CASE image[2] = "base64" ->
                << <<"image_url",
                     "data:" \o media_type \o ";base64," \o image[3]>> >>
          [] image[2] = "url" -> << <<"image_url", image[3]>> >>
          [] OTHER -> <<>>

\* Faulty variant: the tool messages come before the user's own message.
openai_user_messages_tools_first(content_message, tool_results) ==
    tool_results \o content_message

\* convert_messages_to_openai, lines 1110-1126: the user's own message, if it
\* has one, then `result.extend(tool_results)`.
openai_user_messages(content_message, tool_results) ==
    content_message \o tool_results

\* convert_messages_to_openai, lines 1080-1126: the messages of one user
\* message.
openai_user(content) ==
    LET RECURSIVE split(_, _)
        split(acc, items) ==
            IF items = <<>> THEN acc
            ELSE LET item == Head(items)
                     next ==
                        CASE item[1] = "text" ->
                                [acc EXCEPT !.content_parts =
                                    Append(@, <<"text", item[2]>>)]
                          [] item[1] = "image" ->
                                [acc EXCEPT !.content_parts =
                                    @ \o convert_image_openai(item)]
                          [] item[1] = "tool_result" ->
                                [acc EXCEPT !.tool_results =
                                    Append(@,
                                      [role |-> "tool",
                                       tool_call_id |-> item[2],
                                       content |->
                                          tool_result_content_to_string(item[3])])]
                          [] OTHER -> acc
                 IN  split(next, Tail(items))
        parts == split([content_parts |-> <<>>, tool_results |-> <<>>], content)
        content_parts == parts.content_parts
        content_message ==
            IF content_parts = <<>> THEN <<>>
            ELSE IF Len(content_parts) = 1 /\ content_parts[1][1] = "text"
            THEN <<[role |-> "user", content |-> <<"str", content_parts[1][2]>>]>>
            ELSE <<[role |-> "user", content |-> <<"arr", content_parts>>]>>
    IN  openai_user_messages(content_message, parts.tool_results)

\* convert_messages_to_openai, lines 1127-1166: the message of one assistant
\* message.  Absent fields are empty sequences.
openai_assistant(content, include_reasoning_content) ==
    LET RECURSIVE split(_, _)
        split(acc, items) ==
            IF items = <<>> THEN acc
            ELSE LET item == Head(items)
                     next ==
                        CASE item[1] = "text" ->
                                [acc EXCEPT !.text_parts = Append(@, item[2])]
                          [] item[1] = "tool_call" ->
                                [acc EXCEPT !.tool_calls =
                                    Append(@, <<"function", item[2], item[3],
                                                json_to_string(item[4])>>)]
                          [] item[1] = "reasoning" ->
                                [acc EXCEPT !.reasoning_parts = @ \o item[2]]
                          [] OTHER -> acc
                 IN  split(next, Tail(items))
        parts == split([text_parts |-> <<>>, tool_calls |-> <<>>,
                        reasoning_parts |-> <<>>], content)
    IN  [role |-> "assistant",
         content |-> IF parts.text_parts # <<>>
                     THEN <<join_lines(parts.text_parts)>> ELSE <<>>,
         tool_calls |-> parts.tool_calls,
         reasoning_content |->
            IF include_reasoning_content /\ parts.tool_calls # <<>>
            THEN <<join_lines(parts.reasoning_parts)>> ELSE <<>>]

RECURSIVE convert_messages_to_openai(_, _)
convert_messages_to_openai(messages, include_reasoning_content) ==
    IF messages = <<>> THEN <<>>
    ELSE LET message == Head(messages)
         IN  (IF message.role = "user" THEN openai_user(message.content)
              ELSE <<openai_assistant(message.content,
                                      include_reasoning_content)>>)
             \o convert_messages_to_openai(Tail(messages),
                                           include_reasoning_content)

\* Faulty variant: no tool result is resolved.
tool_name_unresolved(tool_call_name_by_id, id) == "tool_result"

\* convert_messages_to_antigravity_gemini, lines 1438-1441:
\* tool_call_name_by_id.get(id).cloned().unwrap_or("tool_result").
tool_name(tool_call_name_by_id, id) ==
    IF id \in DOMAIN tool_call_name_by_id THEN tool_call_name_by_id[id]
    ELSE "tool_result"

\* HashMap::insert.
insert(map, key, value) ==
    [k \in DOMAIN map \cup {key} |-> IF k = key THEN value ELSE map[k]]

\* convert_messages_to_antigravity_gemini: the loop over the messages, with
\* the result so far and the map from tool-call id to function name.
RECURSIVE antigravity_gemini_messages(_, _)
antigravity_gemini_messages(acc, messages) ==
    IF messages = <<>> THEN acc.result
    ELSE LET message == Head(messages)
             RECURSIVE user_parts(_)
             user_parts(items) ==
                IF items = <<>> THEN <<>>
                ELSE LET item == Head(items)
                     IN  (CASE item[1] = "text" -> << <<"text", item[2]>> >>
                            [] item[1] = "tool_result" ->
                                  << <<"functionResponse",
                                       tool_name(acc.tool_call_name_by_id,
                                                 item[2]),
                                       tool_result_content_to_string(item[3])>> >>
                            [] OTHER -> <<>>)
                         \o user_parts(Tail(items))
             RECURSIVE model_parts(_, _)
             model_parts(a, items) ==
                IF items = <<>> THEN a
                ELSE LET item == Head(items)
                     IN  model_parts(
                            CASE item[1] = "text" ->
                                    [a EXCEPT !.parts =
                                        Append(@, <<"text", item[2]>>)]
                              [] item[1] = "tool_call" ->
                                    [parts |-> Append(a.parts,
                                          <<"functionCall", item[3], item[4]>>),
                                     names |-> insert(a.names, item[2], item[3])]
                              [] OTHER -> a,
                            Tail(items))
             push(result, role, parts) ==
                IF parts # <<>>
                THEN Append(result, [role |-> role, parts |-> parts])
                ELSE result
         IN  IF message.role = "user"
             THEN antigravity_gemini_messages(
                    [acc EXCEPT !.result =
                        push(@, "user", user_parts(message.content))],
                    Tail(messages))
             ELSE LET m == model_parts([parts |-> <<>>,
                                        names |-> acc.tool_call_name_by_id],
                                       message.content)
                  IN  antigravity_gemini_messages(
                        [result |-> push(acc.result, "model", m.parts),
                         tool_call_name_by_id |-> m.names],
                        Tail(messages))

convert_messages_to_antigravity_gemini(messages) ==
    antigravity_gemini_messages([result |-> <<>>, tool_call_name_by_id |-> <<>>],
                                messages)

User(content) == [role |-> "user", content |-> content]

Assistant(content) == [role |-> "assistant", content |-> content]

\* The parts of a user message.
UserParts ==
    {<<"text", "hi">>,
     <<"image", "url", "https://img.example/a.png", None>>,
     <<"image", "base64", "QUJD", "PNG">>,
     <<"image", "base64", "QUJD", None>>,
     <<"image", "raw", "", "JPEG">>,
     <<"tool_result", "call_1", << <<"text", "out-1">> >> >>,
     <<"tool_result", "call_2",
       << <<"text", "a">>, <<"image", "url", "", None>>, <<"text", "b">> >> >>,
     <<"document">>}

MaxParts == 3

UserContents == UNION {[1..n -> UserParts] : n \in 1..MaxParts}

AssistantContents ==
    {<< <<"tool_call", "call_1", "read", EmptyObject>> >>,
     << <<"text", "ok">>, <<"reasoning", <<"why">>>>,
        <<"tool_call", "call_2", "bash", <<"obj", <<<<"a", <<"num", 1>>>>>>>>>>,
        <<"text", "then">> >>}

\* Conversations for the OpenAI conversion: one user message with any parts,
\* alone or followed by an assistant message and another user message.
OpenAiConversations ==
    {<<User(u)>> : u \in UserContents}
      \cup {<<User(u), Assistant(a), User(v)>> :
                u \in UserContents, a \in AssistantContents,
                v \in {<< <<"text", "more">> >>,
                       << <<"tool_result", "call_2", << <<"text", "out-2">> >> >>,
                          <<"text", "and">> >>}}

\* Messages for the Antigravity conversion: tool calls that reuse an id, in
\* one message and across messages, and tool results with and without an
\* earlier call.
GeminiMessages ==
    {Assistant(<< <<"tool_call", "call_1", "read", EmptyObject>> >>),
     Assistant(<< <<"tool_call", "call_1", "bash", EmptyObject>> >>),
     Assistant(<< <<"text", "ok">>,
                  <<"tool_call", "call_2", "grep", EmptyObject>>,
                  <<"tool_call", "call_2", "find", EmptyObject>> >>),
     User(<< <<"tool_result", "call_1", << <<"text", "out-1">> >> >> >>),
     User(<< <<"text", "hi">>,
             <<"tool_result", "call_2", << <<"text", "out-2">> >> >>,
             <<"tool_result", "call_1", << <<"text", "out-3">> >> >> >>),
     User(<< <<"document">> >>)}

MaxMessages == 4

GeminiConversations == UNION {[1..n -> GeminiMessages] : n \in 1..MaxMessages}

apply_convert_messages_to_openai ==
    /\ job.op = "convert_messages_to_openai" /\ ~job.done
    /\ Finish(convert_messages_to_openai(job.input.messages,
                                         job.input.include_reasoning_content))
    /\ UNCHANGED <<engineVars, store, auth, disk>>

apply_convert_messages_to_antigravity_gemini ==
    /\ job.op = "convert_messages_to_antigravity_gemini" /\ ~job.done
    /\ Finish(convert_messages_to_antigravity_gemini(job.input.messages))
    /\ UNCHANGED <<engineVars, store, auth, disk>>

InitConvert ==
    /\ InitWith({}, {RingConfig(1, TRUE, "gemini-3-flash", 0)},
                FALSE, {""}, 0, {}, {})
    /\ store = <<>>
    /\ auth = <<>>
    /\ disk = <<>>
    /\ \/ \E messages \in OpenAiConversations,
             include_reasoning_content \in BOOLEAN :
             job = NewJob("convert_messages_to_openai",
                          [messages |-> messages,
                           include_reasoning_content |->
                              include_reasoning_content])
       \/ \E messages \in GeminiConversations :
             job = NewJob("convert_messages_to_antigravity_gemini",
                          [messages |-> messages])

NextConvert ==
    \/ apply_convert_messages_to_openai
    \/ apply_convert_messages_to_antigravity_gemini

SpecConvert == InitConvert /\ [][NextConvert]_vars

(***************************************************************************)
(* Properties of the fallback engine.                                      *)
(***************************************************************************)
Range(seq) == {seq[i] : i \in 1..Len(seq)}

\* The tasks whose completion() call runs with a routing config.
Routed == {t \in DOMAIN call : call[t].self.routing}

\* The name attempt_with_retries gets for position index of call state c.
name_at(c, index) ==
    IF index = 0 THEN c.self.full_model_name ELSE c.fallbacks[index]

\* The call is at an invoker call for one of its fallbacks.
AtFallbackCall(t) ==
    /\ call[t].pc \in {"invoke", "send", "text", "antigravity",
                        "antigravity_text"}
    /\ call[t].index > 0

\* The call of task t found its primary in cooldown and has a fallback.
PrimarySkipped(t) ==
    /\ call[t].pc \notin {"idle", "check_primary"}
    /\ call[t].primary_rate_limited /\ call[t].fallbacks # <<>>

\* C1 as stated: when the primary is in cooldown at the time the call checks
\* it and at least one fallback is configured, the invoker is never called
\* for the primary during the call: the primary's retry loop never starts
\* and every model that is attempted is another model than the primary.
FallbackSkipNeverCalled ==
    \A t \in Routed :
        LET c == call[t]
            o == obs[t]
        IN  PrimarySkipped(t)
            => /\ ~o.primary_http
               /\ 0 \notin Range(o.tried)
               /\ c.index >= 1
               /\ \A i \in Range(o.tried) :
                     make(c.fallbacks[i]).full_model_name
                        # c.self.full_model_name

\* The checks of the tracker the call made for position i.
checks_at(o, i) == {k \in 1..Len(o.checked) : o.checked[k].index = i}

\* C1: when the primary is in cooldown at the time the call checks it and at
\* least one fallback is configured, the primary's retry loop never starts
\* and no request is sent at the primary's position: every retry loop of the
\* call is that of a fallback, started after one check of the tracker that
\* found the fallback's configured name not in cooldown, and it runs on the
\* model that name stands for, which is the primary's own model when the
\* chain names it.
FallbackSkip ==
    \A t \in Routed :
        LET c == call[t]
            o == obs[t]
        IN  PrimarySkipped(t)
            => /\ ~o.primary_http
               /\ 0 \notin Range(o.tried)
               /\ c.index >= 1
               /\ \A i \in Range(o.tried) :
                     /\ i \in 1..fallbacks_to_try(c.fallbacks)
                     /\ Cardinality(checks_at(o, i)) = 1
                     /\ \A k \in checks_at(o, i) : ~o.checked[k].limited
               /\ AtFallbackCall(t) =>
                     run_model(c).full_model_name
                        = make(c.fallbacks[c.index]).full_model_name

\* A call skipped its primary and its first fallback, which names the
\* primary's model without the provider prefix, answered.
FallbackSkipWitness ==
    \E t \in Routed :
        /\ call[t].pc = "done" /\ call[t].result.ok
        /\ call[t].primary_rate_limited /\ call[t].fallbacks # <<>>
        /\ obs[t].http >= 1
        /\ obs[t].tried = <<1>>
        /\ call[t].fallbacks[1] # call[t].self.full_model_name
        /\ make(call[t].fallbacks[1]).full_model_name
              = call[t].self.full_model_name

\* The number of HTTP requests one invoker call can send for model.
requests_per_invocation(model) ==
    IF is_antigravity(model)
    THEN Len(antigravity_model_candidates(Join(model.model_name)))
         * Len(antigravity_endpoints(base_url_of(model)))
    ELSE 1

\* C2 as stated: within one completion() call every model attempted gets at
\* most MAX_RETRIES_PER_MODEL HTTP requests, Antigravity included.
RetryBudgetHttp ==
    \A t \in Routed : obs[t].http <= MAX_RETRIES_PER_MODEL

\* C2: within one completion() call every model attempted, primary or
\* fallback, gets at most MAX_RETRIES_PER_MODEL invoker calls.  An invoker call
\* sends one HTTP request, except the Antigravity invoker, which sends up to
\* (candidate models x endpoints) requests: the HTTP requests of one model
\* are at most MAX_RETRIES_PER_MODEL times that number.
RetryBudget ==
    \A t \in Routed :
        LET c == call[t]
            o == obs[t]
        IN  c.pc \notin {"idle", "check_primary"} /\ o.tried # <<>>
            => /\ o.invocations <= MAX_RETRIES_PER_MODEL
               /\ o.http <= o.invocations * requests_per_invocation(run_model(c))
               /\ o.failures <= o.invocations

\* An Antigravity model used its whole budget: every invoker call of the
\* retry loop went through every endpoint.
RetryBudgetWitness ==
    \E t \in Routed :
        /\ obs[t].tried # <<>>
        /\ is_antigravity(run_model(call[t]))
        /\ obs[t].invocations = MAX_RETRIES_PER_MODEL
        /\ obs[t].http = MAX_RETRIES_PER_MODEL
                            * requests_per_invocation(run_model(call[t]))
        /\ obs[t].http > MAX_RETRIES_PER_MODEL

\* C3: the fallbacks are considered strictly in configured order; at most
\* MAX_FALLBACK_ATTEMPTS of them are attempted, all among the first
\* MAX_FALLBACK_ATTEMPTS of the list; a fallback found in cooldown is passed
\* over without an attempt; the first success ends the call with the response
\* of the model that succeeded.
FallbackBudgetAndOrder ==
    \A t \in Routed :
        LET c == call[t]
            o == obs[t]
            attempted == {i \in Range(o.tried) : i >= 1}
            checks == SelectSeq(o.checked, LAMBDA ch : ch.index >= 1)
        IN  /\ Cardinality(attempted) <= MAX_FALLBACK_ATTEMPTS
            /\ \A i \in attempted : i <= MAX_FALLBACK_ATTEMPTS
            /\ \A j \in 1..Len(checks) :
                  /\ checks[j].index = j
                  /\ j <= MAX_FALLBACK_ATTEMPTS
                  /\ checks[j].limited <=> j \notin attempted
            /\ attempted \subseteq 1..Len(checks)
            /\ \A j, k \in 1..Len(o.tried) : j < k => o.tried[j] < o.tried[k]
            /\ (c.pc = "done" /\ c.result.ok) <=> o.succeeded # <<>>
            /\ o.succeeded # <<>>
               => /\ Len(o.succeeded) = 1
                  /\ o.succeeded[1] = o.tried[Len(o.tried)]
                  /\ c.result = Ok(make(name_at(c, o.succeeded[1])).full_model_name)

\* Of four configured fallbacks one was in cooldown and the third answered
\* after the models before it had failed.
FallbackBudgetAndOrderWitness ==
    \E t \in Routed :
        /\ call[t].pc = "done" /\ call[t].result.ok
        /\ Len(call[t].fallbacks) > MAX_FALLBACK_ATTEMPTS
        /\ obs[t].succeeded = <<MAX_FALLBACK_ATTEMPTS>>
        /\ \E j \in 1..Len(obs[t].checked) :
              obs[t].checked[j].index >= 1 /\ obs[t].checked[j].limited
        /\ Len(obs[t].tried) >= 2

\* C4: record_rate_limit is called for a model exactly when its retry loop
\* ended with all MAX_RETRIES_PER_MODEL invoker calls failing on retriable
\* errors and the last of these errors was a rate-limit error; the key is the
\* name the loop was started with.  A model that answered, a model that failed
\* on a non-retriable error and a model whose last error was not a rate limit
\* get no cooldown.
CooldownRecording ==
    \A t \in Routed :
        LET c == call[t]
            o == obs[t]
        IN  /\ \A j \in 1..Len(o.recorded) :
                  LET r == o.recorded[j]
                  IN  /\ r.invocations = MAX_RETRIES_PER_MODEL
                      /\ r.failures = MAX_RETRIES_PER_MODEL
                      /\ is_rate_limit_error(to_string(r.last))
                      /\ is_retriable_error(to_string(r.last))
                      /\ r.key = name_at(c, r.index)
                      /\ r.index \in Range(o.tried)
                      /\ r.index \notin Range(o.succeeded)
            /\ c.pc = "failed"
               => (c.pending.was_rate_limit
                   <=> /\ o.invocations = MAX_RETRIES_PER_MODEL
                       /\ o.failures = MAX_RETRIES_PER_MODEL
                       /\ is_rate_limit_error(to_string(o.last_observed)))

\* A cooldown was recorded for one model, and a later model of the same call
\* exhausted its retries on an error that is not a rate limit.
CooldownRecordingWitness ==
    \E t \in Routed :
        /\ obs[t].recorded # <<>>
        /\ call[t].pc = "failed"
        /\ ~call[t].pending.was_rate_limit
        /\ obs[t].failures = MAX_RETRIES_PER_MODEL

\* C5: a primary that is not in cooldown and answers 429 to every request is
\* invoked MAX_RETRIES_PER_MODEL times; before the first fallback is checked
\* the primary is in the tracker under the binding's full model name with
\* the current time; and when the fallback then answers, the call returns the
\* fallback's response.
RateLimitFallback ==
    \A t \in Routed :
        LET c == call[t]
            o == obs[t]
        IN  (o.tried # <<>> /\ o.tried[1] = 0 /\ o.primary_429s >= 0
             /\ c.index >= 1)
            => /\ o.primary_429s = MAX_RETRIES_PER_MODEL
               /\ o.recorded # <<>>
               /\ o.recorded[1].index = 0
               /\ o.recorded[1].key = c.self.full_model_name
               /\ c.self.full_model_name \in DOMAIN tracker
               /\ tracker[c.self.full_model_name] >= o.recorded[1].at
               /\ tracker[c.self.full_model_name] <= now
               /\ (Len(o.tried) >= 2 /\ o.succeeded = <<o.tried[2]>>)
                  => /\ c.pc = "done"
                     /\ c.result =
                          Ok(make(c.fallbacks[o.tried[2]]).full_model_name)

\* The primary answered 429 three times and the first fallback answered.
RateLimitFallbackWitness ==
    \E t \in Routed :
        /\ call[t].pc = "done" /\ call[t].result.ok
        /\ ~call[t].primary_rate_limited
        /\ obs[t].primary_429s = MAX_RETRIES_PER_MODEL
        /\ obs[t].tried = <<0, 1>>
        /\ obs[t].succeeded = <<1>>

\* C6 as stated: a non-retriable error of any model ends the call with that
\* error; it is never hidden behind the outcome of a later fallback.
NonRetriableNotSwallowed ==
    \A t \in Routed :
        LET c == call[t]
            o == obs[t]
        IN  (c.pc = "done" /\ o.last_observed # NoError
             /\ ~is_retriable_error(to_string(o.last_observed)))
            => c.result = Err(o.last_observed)

\* C7 as stated: a call in which every model failed returns the last error
\* that was observed, unchanged, and the synthetic error when no model was
\* attempted.
TotalFailureUnchanged ==
    \A t \in Routed :
        LET c == call[t]
            o == obs[t]
        IN  (c.pc = "done" /\ ~c.result.ok)
            => c.result.error = final_error(o.last_observed)

\* The error attempt_with_retries returns for the last error an invoker call
\* returned for the model named model_name.
loop_error(model_name, error) ==
    IF is_retriable_error(to_string(error))
    THEN ProviderError(<<Join(model_name), "failed", "after",
                         ToString(MAX_RETRIES_PER_MODEL), "attempts:">>
                       \o to_string(error))
    ELSE error

\* C7: a call in which every model failed returns the error of the last retry
\* loop that ran: the loop's last error unchanged when it was not retriable,
\* and otherwise a provider error "<model> failed after
\* MAX_RETRIES_PER_MODEL attempts: <last error>" built around it.  When no
\* retry loop ran, because every model was in cooldown, it returns the
\* provider error "all models in fallback chain failed".
TotalFailureResult ==
    \A t \in Routed :
        LET c == call[t]
            o == obs[t]
        IN  (c.pc = "done" /\ ~c.result.ok)
            => c.result.error =
                  IF o.tried = <<>>
                  THEN ProviderError(<<"all", "models", "in", "fallback",
                                       "chain", "failed">>)
                  ELSE loop_error(name_at(c, o.tried[Len(o.tried)]),
                                  o.last_observed)

\* The primary and a fallback both exhausted their retries and the call
\* returned the error built around the fallback's last error.
TotalFailureResultWitness ==
    \E t \in Routed :
        /\ call[t].pc = "done" /\ ~call[t].result.ok
        /\ Len(obs[t].tried) >= 2
        /\ is_retriable_error(to_string(obs[t].last_observed))
        /\ call[t].result.error # obs[t].last_observed

(***************************************************************************)
(* Properties of the rate-limit tracker and of its use by concurrent       *)
(* calls.                                                                  *)
(***************************************************************************)
\* The records of model_name among the first n entries of the history.
records_of(model_name, n) ==
    {i \in 1..n : history[i].key = model_name}

Latest(S) == CHOOSE i \in S : \A j \in S : j <= i

\* C8: after any sequence of record_rate_limit calls under a clock that never
\* goes back, is_rate_limited(M, c) is true iff M has been recorded and its
\* most recent record is less than c seconds old: never true without a
\* record of M, whatever was recorded for other models, and an entry of age c
\* or more answers like no entry.
CooldownMonotonicity ==
    \A m \in TrackerModels, c \in 0..(MaxTrackerClock + 1) :
        LET recs == records_of(m, Len(history))
        IN  is_rate_limited(tracker, m, c, now)
            <=> (recs # {} /\ now - history[Latest(recs)].at < c * 1000)

\* A model recorded twice is in cooldown by its second record although the
\* first one has expired, while another model's entry has expired.
CooldownMonotonicityWitness ==
    \E m, other \in TrackerModels :
        /\ m # other
        /\ Len(history) = MaxRecords
        /\ history[1].key = other
        /\ history[2].key = m /\ history[3].key = m
        /\ history[2].at < history[3].at
        /\ now - history[2].at >= 2 * 1000
        /\ is_rate_limited(tracker, m, 2, now)
        /\ other \in DOMAIN tracker
        /\ ~is_rate_limited(tracker, other, 2, now)

\* The model a configured or bound name stands for.
model_of(name) == make(name).full_model_name

\* C9 as stated: once a call has recorded a rate limit for model M, every
\* call that reads the tracker for M after that record and within the
\* cooldown window sees M in cooldown, whether M is its primary or one of its
\* fallbacks.
CooldownVisibility ==
    \A t \in Routed :
        \A j \in 1..Len(obs[t].checked) :
            LET ch == obs[t].checked[j]
                M == model_of(name_at(call[t], ch.index))
            IN  (\E i \in 1..ch.records :
                    /\ model_of(history[i].key) = M
                    /\ ch.at - history[i].at
                          < routing.rate_limit_cooldown_secs * 1000)
                => ch.limited

\* C10 as stated: every key completion() reads from or writes to the tracker
\* is the full provider/model name of the model, whether the model is used as
\* primary or as fallback and also when it is configured without a provider
\* prefix.
TrackerKeying ==
    /\ \A k \in DOMAIN tracker : k = model_of(k)
    /\ \A t \in Routed :
          /\ \A j \in 1..Len(obs[t].checked) :
                LET key == name_at(call[t], obs[t].checked[j].index)
                IN  key = model_of(key)
          /\ \A j \in 1..Len(obs[t].recorded) :
                obs[t].recorded[j].key = model_of(obs[t].recorded[j].key)

Unrouted == {t \in DOMAIN call : call[t].pc # "idle" /\ ~call[t].self.routing}

\* C12: a call on a binding without routing config makes exactly one invoker
\* call and returns that call's response or error unchanged; it starts no
\* retry loop, never sleeps in backoff, tries no fallback, and neither reads
\* nor writes the rate-limit tracker.
NoRoutingDirect ==
    \A t \in Unrouted :
        LET c == call[t]
            o == obs[t]
        IN  /\ c.pc \in {"invoke", "send", "text", "antigravity",
                        "antigravity_text", "done"}
            /\ c.index = 0 /\ c.attempt = 0 /\ c.fallbacks = <<>>
            /\ o.tried = <<>> /\ o.sleeps = <<>> /\ c.wake = 0
            /\ o.checked = <<>> /\ o.recorded = <<>> /\ history = <<>>
            /\ o.invocations <= 1
            /\ c.pc = "invoke" => o.invocations = 0
            /\ c.pc = "done" =>
                  /\ o.invocations = 1
                  /\ IF c.result.ok
                     THEN /\ o.succeeded = <<0>>
                          /\ c.result = Ok(c.self.full_model_name)
                     ELSE /\ o.succeeded = <<>>
                          /\ c.result = Err(o.last_observed)

\* A direct call returned a retriable error without retrying it.
NoRoutingDirectWitness ==
    \E t \in Unrouted :
        /\ call[t].pc = "done"
        /\ ~call[t].result.ok
        /\ is_retriable_error(to_string(call[t].result.error))
        /\ obs[t].invocations = 1

(***************************************************************************)
(* Properties of the Antigravity invoker.                                  *)
(***************************************************************************)
\* Calls whose binding is served by call_antigravity and has sent a request.
OnAntigravity ==
    {t \in DOMAIN call : /\ call[t].pc # "idle"
                         /\ is_antigravity(run_model(call[t]))
                         /\ obs[t].wire # <<>>}

Keywords ==
    {"not found", "requested entity", "unknown", "unsupported", "unavailable",
     "no longer available"}

\* The words of a message, compared without regard to case.
matches(message, words) ==
    \E i \in 1..Len(message) : to_ascii_lowercase(<<message[i]>>)[1] \in words

\* The rule as claimed: a 400 or 403 whose message has one of the keywords.
advances_claimed(reply) ==
    /\ reply.status \in {"400", "403"}
    /\ matches(antigravity_message(reply), Keywords)

\* The rule with the condition on 403: the message also mentions the model.
advances_amended(reply) ==
    \/ /\ reply.status = "400"
       /\ matches(antigravity_message(reply), Keywords)
    \/ /\ reply.status = "403"
       /\ matches(antigravity_message(reply), Keywords)
       /\ matches(antigravity_message(reply), {"model"})

\* The round trip brought an answer: a status line and a body.
answered(reply) == reply.failure = "none"

\* What the loops do after the request x, for M candidates and E endpoints,
\* when advances(reply) says which replies move on to the next model.
after_request(x, M, E, advances(_)) ==
    LET stop == [stop |-> TRUE, mi |-> 0, ei |-> 0]
        goto(mi, ei) == [stop |-> FALSE, mi |-> mi, ei |-> ei]
        next_model == IF x.mi < M THEN goto(x.mi + 1, 1) ELSE stop
    IN  IF ~answered(x.reply) \/ is_success(x.reply) THEN stop
        ELSE IF x.reply.status = "404"
        THEN IF x.ei < E THEN goto(x.mi, x.ei + 1) ELSE next_model
        ELSE IF advances(x.reply) THEN next_model
        ELSE stop

\* The requests of every Antigravity call follow the loops that advances(_)
\* describes, and a reply that stops the loops ends the call: a non-2xx
\* answer with the error made of its status and message.
AdvanceRules(advances(_)) ==
    \A t \in OnAntigravity :
        LET c == call[t]
            w == obs[t].wire
            candidates ==
                antigravity_model_candidates(Join(run_model(c).model_name))
            endpoints == antigravity_endpoints(base_url_of(run_model(c)))
            M == Len(candidates)
            E == Len(endpoints)
        IN  /\ w[1].mi = 1 /\ w[1].ei = 1
            /\ \A i \in 1..Len(w) :
                 LET x == w[i]
                     then == after_request(x, M, E, advances)
                 IN  /\ x.model = candidates[x.mi]
                     /\ x.endpoint = endpoints[x.ei]
                     /\ IF i < Len(w)
                        THEN /\ ~then.stop
                             /\ w[i + 1].mi = then.mi
                             /\ w[i + 1].ei = then.ei
                        ELSE IF then.stop
                        THEN /\ c.pc = "done"
                             /\ c.result.ok => is_success(x.reply)
                             /\ x.reply = Reply200 => c.result.ok
                             /\ (answered(x.reply) /\ ~is_success(x.reply)) =>
                                  c.result.error =
                                    ProviderError(
                                        <<"Antigravity", "API", "error",
                                          x.reply.status>> \o x.reply.reason
                                        \o <<"from", x.endpoint, "using",
                                             "model", x.model>>
                                        \o antigravity_message(x.reply))
                        ELSE /\ c.pc \in {"antigravity", "antigravity_text"}
                             /\ c.mi = then.mi /\ c.ei = then.ei

\* C14 (as claimed): every 400 or 403 whose message has one of the keywords
\* moves on to the next candidate model.
AntigravityAdvanceClaimed == AdvanceRules(advances_claimed)

\* C14: for each candidate model the endpoints are tried in order; a 404
\* moves to the next endpoint of the model (after the last endpoint, to the
\* next model); a 400 whose message has one of the keywords, or a 403 whose
\* message has one of the keywords and mentions "model", abandons the model's
\* remaining endpoints and moves to the next model; every other non-2xx reply
\* ends the call at once with the provider's message and no further request.
AntigravityAdvance == AdvanceRules(advances_amended)

\* A 403 with a keyword but no mention of the model ended a call that still
\* had candidates left, and a 403 that mentions the model moved one on.
AntigravityAdvanceWitness ==
    \E t \in OnAntigravity :
        LET w == obs[t].wire
        IN  /\ Len(w) = 3
            /\ w[1].reply = Reply404 /\ w[1].mi = 1 /\ w[2].ei = 2
            /\ w[2].reply = Reply403Model /\ w[3].mi = 2 /\ w[3].ei = 1
            /\ w[3].reply = Reply403Entity
            /\ call[t].pc = "done"
            /\ Len(antigravity_model_candidates(
                      Join(run_model(call[t]).model_name))) = 3

\* The call of scenario S5: claude-sonnet-4-5 requested, and the first request
\* went to the sandbox endpoint and was answered 400 "Requested entity was
\* not found".
AliasScenario ==
    {t \in OnAntigravity :
        /\ run_model(call[t]).model_name = <<"claude-sonnet-4-5">>
        /\ obs[t].wire[1].endpoint = SandboxEndpoint
        /\ obs[t].wire[1].reply = Reply400Entity}

\* The rest of S5: the second request goes to the same endpoint with the
\* model `second`, and if it is answered 200 the call made two requests and
\* ended with what the body of the second gave: its response when the body
\* holds one.
AliasSecondCall(second) ==
    \A t \in AliasScenario :
        LET w == obs[t].wire
        IN  /\ Len(w) = 1 => call[t].pc \in {"antigravity", "antigravity_text"}
            /\ Len(w) >= 2 =>
                  /\ w[2].endpoint = w[1].endpoint
                  /\ w[2].model = second
                  /\ (answered(w[2].reply) /\ is_success(w[2].reply)) =>
                        /\ Len(w) = 2
                        /\ call[t].pc = "done"
                        /\ obs[t].http = 2
                        /\ w[2].reply = Reply200 =>
                              call[t].result
                                 = Ok(run_model(call[t]).full_model_name)

\* C15 (as claimed): the first request names claude-sonnet-4-5 and the second
\* the next candidate claude-sonnet-4-6.
AliasingClaimed ==
    /\ \A t \in AliasScenario : obs[t].wire[1].model = "claude-sonnet-4-5"
    /\ AliasSecondCall("claude-sonnet-4-6")

\* C15: when claude-sonnet-4-5 is requested, the first request names the
\* promoted alias claude-sonnet-4-6; when the sandbox endpoint answers it with
\* 400 "Requested entity was not found", the next request goes to the same
\* endpoint with the next candidate claude-sonnet-4-5, and if that is
\* answered 200 exactly two requests were made and the call returns the
\* response of the second.
Aliasing ==
    /\ \A t \in AliasScenario : obs[t].wire[1].model = "claude-sonnet-4-6"
    /\ AliasSecondCall("claude-sonnet-4-5")

\* The scenario ran to its end: two requests, the second answered 200.
AliasingWitness ==
    \E t \in AliasScenario :
        /\ Len(obs[t].wire) = 2
        /\ obs[t].wire[2].reply = Reply200
        /\ call[t].pc = "done" /\ call[t].result.ok

(***************************************************************************)
(* Properties of the credential store.                                     *)
(***************************************************************************)
Refreshing(kind) ==
    {t \in DOMAIN auth : auth[t].pc = "refreshing" /\ auth[t].kind = kind}

\* C11: in every interleaving of callers asking for the access token of one
\* provider, at most one refresh request for its credential is in flight at
\* any time, sent by the holder of the lock for a credential it found
\* expired; a caller that gets the lock and finds a valid credential returns
\* the cached access token without a refresh of its own.
SingleRefresh ==
    /\ \A kind \in Kinds :
          /\ Cardinality(Refreshing(kind)) <= 1
          /\ \A t \in Refreshing(kind) :
                store[kind].holder = t /\ auth[t].expired
    /\ \A t \in DOMAIN auth :
          (auth[t].pc = "done" /\ ~auth[t].expired)
          => /\ auth[t].requests = 0
             /\ auth[t].ok
             /\ auth[t].token = auth[t].found

\* A caller that had to wait for the lock while another one was refreshing
\* returned the token the other one had fetched, without a request of its own.
SingleRefreshWitness ==
    \E t, u \in DOMAIN auth :
        /\ t # u /\ auth[t].kind = auth[u].kind
        /\ auth[t].pc = "done" /\ auth[t].requests = 1 /\ auth[t].ok
        /\ auth[u].pc = "done" /\ auth[u].waited /\ auth[u].requests = 0
        /\ auth[u].token = auth[t].token
        /\ auth[u].token # "access-0"

(***************************************************************************)
(* Properties of the pure functions.                                       *)
(***************************************************************************)
Made == job.op = "make" /\ job.done

\* C13: make parses the identifier s so that provider is "openrouter" and the
\* model the rest when s starts with "openrouter/"; otherwise provider is the
\* text before the first "/" and the model everything after it when s has a
\* "/"; otherwise provider is "anthropic" and the model is s; and always
\* full_model_name = provider + "/" + model.
IdentifierParsing ==
    Made =>
        LET s == job.input
            binding == job.output
            rest == Join(SubSeq(s, 2, Len(s)))
        IN  /\ IF Len(s) >= 2 /\ s[1] = "openrouter"
               THEN /\ binding.provider = "openrouter"
                    /\ Join(binding.model_name) = rest
               ELSE IF Len(s) >= 2
               THEN /\ binding.provider = s[1]
                    /\ Join(binding.model_name) = rest
               ELSE /\ binding.provider = "anthropic"
                    /\ Join(binding.model_name) = Join(s)
            /\ Join(binding.full_model_name)
                 = binding.provider \o "/" \o Join(binding.model_name)
            /\ ~binding.routing

\* An identifier with two "/" that does not start with "openrouter/" was parsed.
IdentifierParsingWitness ==
    /\ Made
    /\ Len(job.input) = 3
    /\ job.input[1] = "openai"
    /\ Join(job.output.model_name) = "m/openrouter"

\* C16: parsing an Anthropic response whose content array is empty and whose
\* stop_reason is "end_turn" returns Ok with exactly one part, the empty text,
\* and never fails.
EmptyAssistantSurvives ==
    (/\ job.op = "parse_anthropic_response" /\ job.done
     /\ job.input.body.content = << <<>> >>
     /\ job.input.body.stop_reason = "end_turn")
    => /\ job.output.status = "ok"
       /\ job.output.choice = <<Text("")>>

\* A call of one of the four response parsers has returned.
ParserReturned ==
    /\ job.op \in {"parse_anthropic_response", "parse_openai_response",
                   "parse_openai_responses_response",
                   "parse_antigravity_response"}
    /\ job.done

\* The response the parser was given is well-formed and carries neither a
\* text nor a tool call.
ZeroContent ==
    LET body == job.input.body
    IN  CASE job.op = "parse_anthropic_response" ->
                /\ body.content # <<>>
                /\ \A i \in 1..Len(body.content[1]) :
                      body.content[1][i][1] \notin {"text", "tool_use"}
          [] job.op = "parse_openai_response" ->
                /\ body.message.content \in {<<>>, <<"">>}
                /\ body.message.reasoning_content \in {<<>>, << <<"str", "">> >>}
                /\ body.message.tool_calls \in {<<>>, << <<>> >>}
          [] job.op = "parse_openai_responses_response" ->
                /\ body.output # <<>>
                /\ \A i \in 1..Len(body.output[1]) :
                      LET item == body.output[1][i]
                      IN  /\ item[1] # "function_call"
                          /\ item[1] = "message" =>
                                \A k \in 1..Len(item[2]) : item[2][k][2] = ""
          [] job.op = "parse_antigravity_response" ->
                \A i \in 1..Len(body) : \A k \in 1..Len(body[i].parts) :
                    /\ body[i].parts[k].text \in {<<>>, <<"">>}
                    /\ body[i].parts[k].functionCall = <<>>
          [] OTHER -> FALSE

\* C17: every codec turns a response without content into a successful
\* response with a single empty text part, so that every successful response
\* has a non-empty sequence of parts.
ZeroContentSurvives ==
    ParserReturned =>
        /\ ZeroContent =>
              /\ job.output.status = "ok"
              /\ job.output.choice = <<Text("")>>
        /\ job.output.status = "ok" => job.output.choice # <<>>

\* The count a provider reported, a missing one read as 0; for Antigravity
\* the last event that reports the count.
reported(field) ==
    LET body == job.input.body
        RECURSIVE last(_)
        last(i) == IF i = 0 THEN 0
                   ELSE IF body[i].usage[field] # <<>> THEN body[i].usage[field][1]
                   ELSE last(i - 1)
    IN  IF job.op = "parse_antigravity_response" THEN last(Len(body))
        ELSE IF body.usage[field] = <<>> THEN 0 ELSE body.usage[field][1]

\* C18: every response a parser returns for a body with content has
\* total_tokens = input_tokens + output_tokens for all reported counts,
\* without wrap-around and without a failure.
UsageArithmetic ==
    (ParserReturned /\ job.output.status # "err") =>
        /\ job.output.status = "ok"
        /\ job.output.usage[1].input_tokens = reported("input_tokens")
        /\ job.output.usage[1].output_tokens = reported("output_tokens")
        /\ job.output.usage[1].total_tokens
             = reported("input_tokens") + reported("output_tokens")

Decoded == job.op = "openai_arguments" /\ job.done

\* C19 (as claimed): for every JSON value v, the tool call that carries the
\* JSON text of v in a string and the one that carries v itself decode to the
\* same arguments, and these are v.
ArgumentDecode ==
    Decoded =>
        /\ job.output.from_string = job.output.from_parsed
        /\ job.output.from_string = job.input

\* C19: for every JSON value v the JSON text of v in a string decodes to v;
\* v itself decodes to v when v is an object, and to the empty object
\* otherwise; so both forms decode to the same value v for every object v.
ArgumentDecodeObjects ==
    Decoded =>
        /\ job.output.from_string = job.input
        /\ job.output.from_parsed =
              IF job.input[1] = "obj" THEN job.input ELSE EmptyObject

\* An object with a nested object and an array was decoded from both forms.
ArgumentDecodeObjectsWitness ==
    /\ Decoded
    /\ job.input[1] = "obj"
    /\ Len(job.input[2]) = 2
    /\ job.output.from_parsed = job.output.from_string

\* C20: on the OAuth path, for every set of original tool names and a
\* response whose tool calls use the names sent to Anthropic for them, the
\* reverse mapping gives every tool call the original name it came from and
\* leaves text parts, tool-call ids and arguments as they were.
ToolNameRoundTrip ==
    (job.op = "reverse_map_tool_names" /\ job.done /\ job.input.is_oauth) =>
        LET before == job.input.choice
            after == job.output
        IN  /\ Len(after) = Len(before)
            /\ after[1] = before[1]
            /\ \A i \in 1..Len(job.input.origins) :
                  /\ after[i + 1][1] = "tool_call"
                  /\ after[i + 1][2] = before[i + 1][2]
                  /\ after[i + 1][4] = before[i + 1][4]
                  /\ after[i + 1][3]
                        = job.input.original_tools[job.input.origins[i]][1]

\* C21: while and after a credentials save (a concurrent reader or a crash
\* between steps included), the file at the final path holds either the
\* complete old content or the complete new content, and it never holds
\* credential content while its permissions are broader than 0600.
AtomicOwnerOnlySave ==
    Saving =>
        LET file == disk[save_path]
        IN  /\ \/ file.exists = job.before.exists /\ file.data = job.before.data
               \/ file.exists /\ file.data = save_data
            /\ (file.exists /\ file.data # <<>>) => file.mode = "0600"

\* C22: for both credential kinds and all millisecond timestamps,
\* is_expired() returns true exactly when now + 5 minutes >= expires_at;
\* hence, for a fixed credential, once is_expired() is true it is true at
\* every later time.
ExpiryBuffer ==
    (job # <<>> /\ job.op = "is_expired" /\ job.done) =>
        /\ job.output.at_now
              = <<job.input.now + 5 * 60 * 1000 >= job.input.expires_at>>
        /\ job.output.at_later
              = <<job.input.later + 5 * 60 * 1000 >= job.input.expires_at>>
        /\ job.output.at_now = <<TRUE>> => job.output.at_later = <<TRUE>>

(***************************************************************************)
(* Properties of credential refresh.                                       *)
(***************************************************************************)
\* A step in which task t's refresh fails.
refresh_fails(t) ==
    /\ auth[t].pc \in {"acquire", "refreshing"}
    /\ auth'[t].expired /\ auth'[t].pc = "done" /\ ~auth'[t].ok

\* C23: a refresh that fails at any step (stored refresh token missing,
\* client id or client secret not in the environment, request not sent,
\* non-2xx status, unreadable or unparsable body, missing access_token)
\* returns an error, leaves the credential's access token,
\* refresh token and expires_at as they were, and writes nothing to the
\* credentials file.
RefreshFailureKeeps ==
    [][\A t \in DOMAIN auth :
          refresh_fails(t) =>
              LET kind == auth[t].kind
              IN  /\ auth'[t].error # <<>>
                  /\ auth'[t].token = None
                  /\ \A f \in {"access_token", "refresh_token", "expires_at"} :
                        store'[kind].creds[f] = store[kind].creds[f]
                  /\ disk' = disk]_vars

\* After one successful refresh, which was saved, a second refresh got a
\* body that is not JSON: the credential and the file are those of the first.
RefreshFailureKeepsWitness ==
    \E t \in DOMAIN auth :
        /\ auth[t].pc = "done" /\ auth[t].requests = 1 /\ ~auth[t].ok
        /\ auth[t].error = <<"failed", "to", "parse", "refresh", "response">>
        /\ store["anthropic"].refreshes = 1
        /\ store["anthropic"].creds.access_token = "access-1"
        /\ disk[credentials_path("anthropic")]
              = SavedFile("anthropic", store["anthropic"].creds)

\* C24: after any sequence of successful Antigravity refreshes, refresh_token,
\* token_type and scope each equal the value of the most recent response that
\* carried the field, or the original value when none did; project_id never
\* changes; and a credential that had a refresh token still has one.
RetainedFields ==
    LET s == store["antigravity"]
    IN  /\ \A f \in DOMAIN s.carried : s.creds[f] = s.carried[f]
        /\ s.creds.project_id = s.original.project_id
        /\ s.original.refresh_token # None => s.creds.refresh_token # None

\* Two refreshes succeeded: the first reply carried a refresh token and a
\* scope, the second neither, and none carried a token type.
RetainedFieldsWitness ==
    LET s == store["antigravity"]
    IN  /\ s.refreshes = 2
        /\ s.creds.access_token = "access-2"
        /\ s.creds.refresh_token = "refresh-1"
        /\ s.creds.scope = "openid"
        /\ s.creds.token_type = "Bearer"
        /\ s.original.refresh_token = "refresh-0"

(***************************************************************************)
(* Further properties of the fallback engine.                              *)
(***************************************************************************)
\* Task t runs completion() with a routing config.
InRetryLoop(t) == call[t].pc # "idle" /\ call[t].self.routing

\* C25: in attempt_with_retries the first non-retriable failure ends the
\* loop at once: it returns that error unchanged with was_rate_limit = false,
\* and for that model no further invoker call and no further backoff sleep
\* follow.
NonRetriableEndsLoop ==
    \A t \in DOMAIN call :
        InRetryLoop(t) =>
            LET c == call[t]
                o == obs[t]
            IN  /\ c.pc \in {"invoke", "backoff"} => o.failures = o.invocations
                /\ c.pc \in {"send", "text", "antigravity", "antigravity_text"}
                   => o.failures = o.invocations - 1
                /\ (/\ c.pc = "failed"
                    /\ ~is_retriable_error(to_string(o.last_observed)))
                   => /\ c.pending = [error |-> o.last_observed,
                                      was_rate_limit |-> FALSE]
                      /\ o.failures = o.invocations - 1

\* After one retriable failure and one backoff, the second invoker call for
\* the model failed with 401 and the loop returned it.
NonRetriableEndsLoopWitness ==
    \E t \in DOMAIN call :
        /\ InRetryLoop(t)
        /\ call[t].pc = "failed"
        /\ obs[t].invocations = 2 /\ obs[t].failures = 1
        /\ ~is_retriable_error(to_string(obs[t].last_observed))
        /\ call[t].pending.error = obs[t].last_observed

\* C26: the retry loop does not sleep before attempt 0; before each attempt
\* k (1 <= k < MAX_RETRIES_PER_MODEL) it sleeps exactly once, for
\* RETRY_BASE_DELAY_MS * 2^(k-1) ms, after attempt k-1 failed and before the
\* invoker call of attempt k; and it does not sleep after the final attempt.
BackoffSchedule ==
    \A t \in DOMAIN call :
        LET c == call[t]
            o == obs[t]
            slept == Len(o.sleeps)
        IN  /\ \A k \in 1..slept :
                  /\ o.sleeps[k].before = k
                  /\ o.sleeps[k].delay_ms = RETRY_BASE_DELAY_MS * 2^(k - 1)
                  /\ o.sleeps[k].elapsed >= RETRY_BASE_DELAY_MS * 2^(k - 1)
                  /\ o.sleeps[k].invocations = k
                  /\ o.sleeps[k].failures = k
            /\ slept < MAX_RETRIES_PER_MODEL
            /\ slept = IF c.pc = "invoke" \/ o.invocations = 0
                       THEN o.invocations ELSE o.invocations - 1

\* A retry loop made its last attempt after two sleeps, of 500 ms and of
\* 1000 ms, and ended without another.
BackoffScheduleWitness ==
    \E t \in DOMAIN call :
        /\ call[t].pc = "failed"
        /\ obs[t].invocations = MAX_RETRIES_PER_MODEL
        /\ Len(obs[t].sleeps) = 2
        /\ obs[t].sleeps[1].delay_ms = 500 /\ obs[t].sleeps[1].elapsed = 500
        /\ obs[t].sleeps[2].delay_ms = 1000 /\ obs[t].sleeps[2].elapsed = 1000

\* The invoker calls a completion() call with a routing config may make.
CallBudget(c) ==
    MAX_RETRIES_PER_MODEL * (1 + Min(Len(c.fallbacks), MAX_FALLBACK_ATTEMPTS))

\* The retry loops of a call started for positions in rising order, each at
\* most once, and each made at most MAX_RETRIES_PER_MODEL invoker calls.
LoopsInOrder(t) ==
    LET tried == obs[t].tried
    IN  /\ \A i \in 1..Len(tried) - 1 : tried[i] < tried[i + 1]
        /\ Len(tried) <= 1 + fallbacks_to_try(call[t].fallbacks)
        /\ obs[t].calls <= MAX_RETRIES_PER_MODEL * Len(tried)
        /\ obs[t].invocations <= MAX_RETRIES_PER_MODEL

\* Within the budget, and every fallback on a fresh binding without routing
\* config.
WithinBudgetFresh ==
    \A t \in DOMAIN call :
        InRetryLoop(t) =>
            /\ obs[t].calls <= CallBudget(call[t])
            /\ obs[t].calls <= MAX_RETRIES_PER_MODEL * Len(obs[t].tried)
            /\ AtFallbackCall(t) => ~run_model(call[t]).routing

\* Within the budget; a fallback is invoked on a fresh binding without
\* routing config unless its name as configured is the full name of the
\* primary, and then on a clone of the caller's binding (lines 153-157);
\* either way the invoker call is one step of the one retry loop of its
\* position.
WithinBudget ==
    \A t \in DOMAIN call :
        InRetryLoop(t) =>
            /\ obs[t].calls <= CallBudget(call[t])
            /\ LoopsInOrder(t)
            /\ AtFallbackCall(t) =>
                  /\ run_model(call[t]).routing
                        <=> (call[t].fallbacks[call[t].index]
                                = call[t].self.full_model_name)
                  /\ run_model(call[t]).full_model_name
                        = make(call[t].fallbacks[call[t].index]).full_model_name

Completed == \A t \in DOMAIN call : call[t].pc = "done"

\* C29 as stated: when every invoker call returns, complete() with a
\* routing config terminates after at most MAX_RETRIES_PER_MODEL * (1 +
\* min(number of fallbacks, MAX_FALLBACK_ATTEMPTS)) invoker calls, and every
\* fallback is invoked through a fresh binding that has no routing config.
BoundedCompletionFresh == []WithinBudgetFresh /\ <>Completed

\* C29: when every invoker call returns, complete() with a routing config
\* terminates after at most MAX_RETRIES_PER_MODEL * (1 + min(number of
\* fallbacks, MAX_FALLBACK_ATTEMPTS)) invoker calls; a fallback is invoked
\* through a fresh binding without routing config, except one whose
\* configured name equals the primary's full name, which is invoked through
\* a clone of the caller's binding; in both cases the invoker call starts no
\* fallback chain and no retry loop of its own: the retry loops of the call
\* start in position order, one per position.
BoundedCompletion == []WithinBudget /\ <>Completed

\* A call whose chain of four names the model itself ended after twelve
\* invoker calls: three for the primary, three for each of the first three
\* fallbacks, the second of which is the model itself on the caller's
\* binding.
BoundedCompletionWitness ==
    \E t \in DOMAIN call :
        /\ InRetryLoop(t)
        /\ call[t].pc = "done"
        /\ Len(call[t].fallbacks) > MAX_FALLBACK_ATTEMPTS
        /\ obs[t].calls = CallBudget(call[t])
        /\ call[t].fallbacks[2] = call[t].self.full_model_name
        /\ obs[t].tried = <<0, 1, 2, 3>>

(***************************************************************************)
(* The loops of call_antigravity.                                          *)
(***************************************************************************)
NoDuplicates(list) ==
    \A i, j \in 1..Len(list) : i # j => list[i] # list[j]

\* C30: the endpoint list is the sandbox endpoint, the configured base URL
\* and the default endpoint, in this order and without duplicates (at most
\* three); the candidate list contains the requested model and has no
\* duplicates; each (candidate, endpoint) pair is requested at most once, in
\* model-major order; the first 2xx response ends the iteration; and when
\* the pairs are exhausted by errors that advance, the invocation returns the
\* error of the last HTTP call made.
AntigravityIteration ==
    \A t \in DOMAIN call :
        (/\ call[t].pc \in {"antigravity", "antigravity_text", "done"}
         /\ is_antigravity(run_model(call[t]))) =>
            LET c == call[t]
                requested == Join(run_model(c).model_name)
                model_candidates == antigravity_model_candidates(requested)
                endpoints == antigravity_endpoints(base_url_of(run_model(c)))
                configured == trim_end_matches(base_url_of(run_model(c)))
                wire == obs[t].wire
                n == Len(wire)
            IN  /\ endpoints =
                      IF configured \in {"", SandboxEndpoint, DefaultEndpoint}
                      THEN <<SandboxEndpoint, DefaultEndpoint>>
                      ELSE <<SandboxEndpoint, configured, DefaultEndpoint>>
                /\ NoDuplicates(endpoints) /\ Len(endpoints) <= 3
                /\ \E i \in 1..Len(model_candidates) :
                      model_candidates[i] = requested
                /\ NoDuplicates(model_candidates)
                /\ \A i \in 1..n :
                      /\ wire[i].model = model_candidates[wire[i].mi]
                      /\ wire[i].endpoint = endpoints[wire[i].ei]
                      /\ i = 1 => wire[i].mi = 1 /\ wire[i].ei = 1
                      /\ i < n =>
                            /\ answered(wire[i].reply)
                            /\ ~is_success(wire[i].reply)
                            /\ \/ wire[i].mi < wire[i + 1].mi
                               \/ /\ wire[i].mi = wire[i + 1].mi
                                  /\ wire[i].ei < wire[i + 1].ei
                /\ (n > 0 /\ is_success(wire[n].reply))
                   => /\ c.pc = "done"
                      /\ wire[n].reply = Reply200 => c.result.ok
                /\ (/\ n > 0 /\ c.pc = "done" /\ answered(wire[n].reply)
                    /\ ~is_success(wire[n].reply))
                   => /\ ~c.result.ok
                      /\ c.result.error =
                            antigravity_error(wire[n].reply, wire[n].endpoint,
                                              wire[n].model)

\* With the base URL "https://proxy.example/" every one of the nine pairs
\* of claude-sonnet-4-5 was answered 404, and the invocation returned the
\* error of the ninth request.
AntigravityIterationWitness ==
    \E t \in DOMAIN call :
        /\ call[t].pc = "done" /\ is_antigravity(run_model(call[t]))
        /\ base_url_of(run_model(call[t])) = "https://proxy.example/"
        /\ Len(obs[t].wire) = 9
        /\ \A i \in 1..9 : obs[t].wire[i].reply.status = "404"
        /\ obs[t].wire[9].endpoint = DefaultEndpoint
        /\ obs[t].wire[2].endpoint = "https://proxy.example"
        /\ ~call[t].result.ok

(***************************************************************************)
(* Properties of the message conversions.                                  *)
(***************************************************************************)
IsToolResult(item) == item[1] = "tool_result"

\* C27: in the OpenAI chat conversion every tool-result part of a user
\* message becomes a message {role: "tool", tool_call_id, content} of its
\* own; these messages keep their relative order, come after the user
\* message made from the same neutral message (when its text or image parts
\* make one), and before every message made from a later neutral message.
ToolResultOrdering ==
    (job # <<>> /\ job.op = "convert_messages_to_openai" /\ job.done) =>
        LET messages == job.input.messages
            out == job.output
            results(i) ==
                IF messages[i].role = "user"
                THEN SelectSeq(messages[i].content, IsToolResult)
                ELSE <<>>
            own(i) ==
                IF messages[i].role = "assistant" THEN 1
                ELSE IF \E j \in 1..Len(messages[i].content) :
                          LET item == messages[i].content[j]
                          IN  \/ item[1] = "text"
                              \/ item[1] = "image" /\ item[2] \in {"base64", "url"}
                THEN 1 ELSE 0
            produced(i) == own(i) + Len(results(i))
            RECURSIVE before(_)
            before(i) == IF i = 1 THEN 0 ELSE before(i - 1) + produced(i - 1)
        IN  /\ Len(out) = before(Len(messages) + 1)
            /\ \A i \in 1..Len(messages) :
                  /\ own(i) = 1 => out[before(i) + 1].role = messages[i].role
                  /\ \A j \in 1..Len(results(i)) :
                        LET tool == out[before(i) + own(i) + j]
                        IN  /\ tool.role = "tool"
                            /\ tool = [role |-> "tool",
                                       tool_call_id |-> results(i)[j][2],
                                       content |->
                                          tool_result_content_to_string(
                                              results(i)[j][3])]

\* A user message with the result of call_2, a text and the result of
\* call_1, followed by two more messages: the output has the user's text,
\* the two tool messages in that order, then the assistant's message.
ToolResultOrderingWitness ==
    /\ job # <<>> /\ job.op = "convert_messages_to_openai" /\ job.done
    /\ Len(job.input.messages) = 3
    /\ Len(job.input.messages[1].content) = 3
    /\ job.input.messages[1].content[2] = <<"text", "hi">>
    /\ Len(job.output) >= 5
    /\ job.output[1] = [role |-> "user", content |-> <<"str", "hi">>]
    /\ job.output[2].role = "tool" /\ job.output[2].tool_call_id = "call_2"
    /\ job.output[2].content = "a\nb"
    /\ job.output[3].role = "tool" /\ job.output[3].tool_call_id = "call_1"
    /\ job.output[4].role = "assistant"

IsFunctionResponse(part) == part[1] = "functionResponse"

IsToolCall(item) == item[1] = "tool_call"

\* C28: in the Antigravity conversion every functionResponse part made from
\* a tool result is named with the function name of the assistant tool call
\* that carries the same tool-call id and appears earlier in the
\* conversation (the most recent one if the id was reused), never with that
\* of a tool call that appears later; a tool result without an earlier call
\* is named "tool_result".
FunctionResponseNaming ==
    (job # <<>> /\ job.op = "convert_messages_to_antigravity_gemini"
     /\ job.done) =>
        LET messages == job.input.messages
            out == job.output
            RECURSIVE tool_results(_)
            tool_results(i) ==
                IF i > Len(messages) THEN <<>>
                ELSE (IF messages[i].role = "user"
                      THEN LET found == SelectSeq(messages[i].content,
                                                  IsToolResult)
                           IN  [k \in 1..Len(found) |->
                                   [at |-> i, id |-> found[k][2]]]
                      ELSE <<>>) \o tool_results(i + 1)
            RECURSIVE responses(_)
            responses(k) ==
                IF k > Len(out) THEN <<>>
                ELSE SelectSeq(out[k].parts, IsFunctionResponse)
                     \o responses(k + 1)
            RECURSIVE calls_before(_, _)
            calls_before(i, id) ==
                IF i = 1 THEN <<>>
                ELSE calls_before(i - 1, id)
                     \o (IF messages[i - 1].role = "assistant"
                         THEN LET HasId(item) == IsToolCall(item) /\ item[2] = id
                              IN  SelectSeq(messages[i - 1].content, HasId)
                         ELSE <<>>)
            expected(result) ==
                LET calls == calls_before(result.at, result.id)
                IN  IF calls = <<>> THEN "tool_result"
                    ELSE calls[Len(calls)][3]
        IN  /\ Len(responses(1)) = Len(tool_results(1))
            /\ \A k \in 1..Len(tool_results(1)) :
                  responses(1)[k][2] = expected(tool_results(1)[k])

\* call_1 was used for "read", answered, used again for "bash" and answered
\* again: the first response is named read, the second bash.
FunctionResponseNamingWitness ==
    /\ job # <<>> /\ job.op = "convert_messages_to_antigravity_gemini"
    /\ job.done
    /\ Len(job.input.messages) = 4
    /\ job.input.messages[1].content[1] = <<"tool_call", "call_1", "read", EmptyObject>>
    /\ job.input.messages[3].content[1] = <<"tool_call", "call_1", "bash", EmptyObject>>
    /\ Len(job.output) = 4
    /\ job.output[2].parts = << <<"functionResponse", "read", "out-1">> >>
    /\ job.output[4].parts = << <<"functionResponse", "bash", "out-1">> >>
====
